---- MODULE Spec2Model ----
(***************************************************************************)
(* A model of rlm_bridge.py: the char-budgeted assembly of session parts,  *)
(* the discovery and loading of session files, the JSONL transcript        *)
(* parser, and the retry / fallback protocol of run_rlm and main_async.    *)
(*                                                                         *)
(* Strings whose content does not matter are modelled by their length;     *)
(* strings the code inspects are modelled as sequences of characters or    *)
(* of words, so that strip(), lower(), join() and the substring tests are  *)
(* computed rather than assumed.                                           *)
(***************************************************************************)
EXTENDS Integers, Sequences, FiniteSets, TLC

VARIABLES
    a_parts,        \* _assemble_session_parts: argument parts
    a_max_chars,    \* _assemble_session_parts: argument max_chars
    a_result,       \* _assemble_session_parts: returned value, None before the call
    m_args,         \* main_async: the parsed command line and the loaded context
    m_pc,           \* main_async: position
    m_error,        \* main_async: the exception caught from the primary run_rlm
    m_result,       \* main_async: local result
    m_output,       \* what main_async printed as JSON, None before
    r_call,         \* run_rlm: the arguments of the current invocation
    r_pc,           \* run_rlm: position
    r_attempt,      \* run_rlm: local attempt
    r_rlm,          \* run_rlm: local rlm, the backend object of this attempt
    r_result,       \* run_rlm: the dict returned to the caller
    r_exc,          \* run_rlm: the exception raised to the caller
    runs,           \* history: the run_rlm invocations made so far
    calls,          \* history: the rlm.completion calls finished so far
    created,        \* history: number of backend objects built by _create_rlm
    s_dir,          \* the sessions directory: its files in glob order, with the index
    s_call,         \* the call made on the directory, None before
    s_result,       \* what the call returned or raised
    s_tasks,        \* load_sessions_parallel: the process_session_file tasks
    s_gather,       \* load_sessions_parallel: the outcome of asyncio.gather, None before
    p_raw,          \* parse_jsonl_session_content: the lines of raw_content
    p_result,       \* parse_jsonl_session_content: what it returned or raised
    i_sidecar,      \* the sidecar index sessions.json: its state and its entries
    i_results,      \* _load_sessions_index_map: the result for each on-disk shape
    k_model_name,   \* _resolve_model_pricing: argument model_name
    k_result,       \* _resolve_model_pricing: returned value
    c_usage,        \* estimate_usage_cost: argument usage_summary
    c_result,       \* estimate_usage_cost: returned value, None before the call
    b_args,         \* the context build of main_async: the loaded texts and options
    b_result,       \* the context build of main_async: its locals once built
    w_workspace,    \* the workspace directory: named files and dated notes
    w_call,         \* load_workspace_sync: the arguments of the call, None before
    w_result        \* load_workspace_sync: the parts of the returned text

a_vars == <<a_parts, a_max_chars, a_result>>

m_vars == <<m_args, m_pc, m_error, m_result, m_output>>

r_vars == <<r_call, r_pc, r_attempt, r_rlm, r_result, r_exc, runs, calls, created>>

s_vars == <<s_dir, s_call, s_result, s_tasks, s_gather>>

p_vars == <<p_raw, p_result>>

i_vars == <<i_sidecar, i_results>>

k_vars == <<k_model_name, k_result>>

c_vars == <<c_usage, c_result>>

b_vars == <<b_args, b_result>>

w_vars == <<w_workspace, w_call, w_result>>

\* Python's None, as a tagged value so that it compares with every result record
None == [kind |-> "None"]

Min(a, b) == IF a < b THEN a ELSE b

Max(a, b) == IF a > b THEN a ELSE b

RECURSIVE SumLen(_)
SumLen(s) == IF s = <<>> THEN 0 ELSE Head(s).len + SumLen(Tail(s))

\* All sequences over S of length 0..n.
SeqUpTo(S, n) == UNION {[1..k -> S] : k \in 0..n}

(***************************************************************************)
(* _assemble_session_parts                                                 *)
(***************************************************************************)

\* len("\n[...truncated due to memory limit]")
TruncationMarkerLen == 35

\* the minimum remaining budget for which a cut part is still emitted
MinTruncatedRemainder == 1000

\* len("\n\n"), the separator of "\n\n".join(assembled)
PartSeparatorLen == 2

NoSessionsLoaded == "[No sessions loaded]"

NoSessionsAvailable == "[No sessions available]"

\* content[:remaining] + "\n[...truncated due to memory limit]"
TruncatedPart(content, remaining) ==
    [id |-> content.id,
     len |-> Min(content.len, remaining) + TruncationMarkerLen,
     kept |-> Min(content.len, remaining),
     truncated |-> TRUE]

WholePart(content) ==
    [id |-> content.id, len |-> content.len, kept |-> content.len, truncated |-> FALSE]

\* mutant: a remaining budget of exactly 1000 characters is enough for a cut part
RECURSIVE AssembleLoop_ThresholdInclusive(_, _, _, _, _)
AssembleLoop_ThresholdInclusive(parts, max_chars, i, total_chars, assembled) ==
    IF i > Len(parts) THEN assembled
    ELSE IF total_chars >= max_chars THEN assembled
    ELSE IF total_chars + parts[i].len > max_chars
         THEN LET remaining == max_chars - total_chars
              IN  IF remaining >= MinTruncatedRemainder
                  THEN Append(assembled, TruncatedPart(parts[i], remaining))
                  ELSE assembled
    ELSE AssembleLoop_ThresholdInclusive(parts, max_chars, i + 1,
                                         total_chars + parts[i].len,
                                         Append(assembled, WholePart(parts[i])))

\* mutant: a part that does not fit is passed over and the loop goes on
RECURSIVE AssembleLoop_SkipsUnfit(_, _, _, _, _)
AssembleLoop_SkipsUnfit(parts, max_chars, i, total_chars, assembled) ==
    IF i > Len(parts) THEN assembled
    ELSE IF total_chars >= max_chars THEN assembled
    ELSE IF total_chars + parts[i].len > max_chars
         THEN LET remaining == max_chars - total_chars
              IN  IF remaining > MinTruncatedRemainder
                  THEN Append(assembled, TruncatedPart(parts[i], remaining))
                  ELSE AssembleLoop_SkipsUnfit(parts, max_chars, i + 1, total_chars,
                                               assembled)
    ELSE AssembleLoop_SkipsUnfit(parts, max_chars, i + 1, total_chars + parts[i].len,
                                 Append(assembled, WholePart(parts[i])))

\* The for loop of _assemble_session_parts from part i on, with the loop's
\* locals total_chars and assembled; the value is the final list assembled.
RECURSIVE AssembleLoop(_, _, _, _, _)
AssembleLoop(parts, max_chars, i, total_chars, assembled) ==
    IF i > Len(parts) THEN assembled
    ELSE IF total_chars >= max_chars THEN assembled
    ELSE IF total_chars + parts[i].len > max_chars
         THEN LET remaining == max_chars - total_chars
              IN  IF remaining > MinTruncatedRemainder
                  THEN Append(assembled, TruncatedPart(parts[i], remaining))
                  ELSE assembled
    ELSE AssembleLoop(parts, max_chars, i + 1, total_chars + parts[i].len,
                      Append(assembled, WholePart(parts[i])))

\* The returned string: the emitted parts joined by "\n\n", or the sentinel.
_assemble_session_parts(parts, max_chars) ==
    LET assembled == AssembleLoop(parts, max_chars, 1, 0, <<>>)
    IN  IF assembled # <<>>
        THEN [kind |-> "joined", parts |-> assembled,
              len |-> SumLen(assembled) + PartSeparatorLen * (Len(assembled) - 1)]
        ELSE [kind |-> "sentinel", parts |-> <<>>, text |-> NoSessionsLoaded,
              len |-> 20]

(***************************************************************************)
(* parse_jsonl_session_content.  A text is a sequence of characters; a     *)
(* line of the transcript is what json.loads makes of it.                  *)
(***************************************************************************)

Absent == [kind |-> "absent"]

Null == [kind |-> "null"]

Str(text) == [kind |-> "str", text |-> text]

IsSpace(ch) == ch \in {" ", "\t", "\n"}

RECURSIVE LStrip(_)
LStrip(text) ==
    IF text # <<>> /\ IsSpace(Head(text)) THEN LStrip(Tail(text)) ELSE text

RECURSIVE RStrip(_)
RStrip(text) ==
    IF text # <<>> /\ IsSpace(text[Len(text)])
    THEN RStrip(SubSeq(text, 1, Len(text) - 1))
    ELSE text

\* str.strip()
Strip(text) == RStrip(LStrip(text))

\* sep.join(texts)
RECURSIVE Join(_, _)
Join(texts, sep) ==
    IF texts = <<>> THEN <<>>
    ELSE IF Len(texts) = 1 THEN texts[1]
    ELSE texts[1] \o sep \o Join(Tail(texts), sep)

\* str(entry.get("type") or "").strip().lower() of the type values of the model
EntryType(type) ==
    CASE type = "Branch_Summary " -> "branch_summary"
      [] type = "compaction" -> "compaction"
      [] type = "message" -> "message"
      [] OTHER -> ""

\* value.get(key) is a string with text left after strip()
HasText(value) == value.kind = "str" /\ Strip(value.text) # <<>>

_safe_text_from_value(value) ==
    CASE value.kind = "str" -> Strip(value.text)
      [] value.kind = "dict" ->
            IF HasText(value.text) THEN Strip(value.text.text)
            ELSE IF HasText(value.summary) THEN Strip(value.summary.text)
            ELSE IF HasText(value.content) THEN Strip(value.content.text)
            ELSE IF HasText(value.message) THEN Strip(value.message.text)
            ELSE <<>>
      [] OTHER -> <<>>

\* a JSON object with the keys _safe_text_from_value looks at
Dict(text, summary, content, message) ==
    [kind |-> "dict", text |-> text, summary |-> summary, content |-> content,
     message |-> message]

\* {"role": role, "content": content}; role "" when the key is missing
Message(role, content) ==
    [kind |-> "dict", role |-> role, text |-> Absent, summary |-> Absent,
     content |-> content, message |-> Absent]

\* {"type": "text", "text": text}
TextBlock(text) == [kind |-> "dict", type |-> "text", text |-> text]

\* a block of another type, such as tool_use
OtherBlock == [kind |-> "dict", type |-> "tool_use", text |-> Absent]

Blocks(blocks) == [kind |-> "list", blocks |-> blocks]

\* a line holding a JSON object
Entry(type, summary, content, message) ==
    [kind |-> "object", type |-> type, summary |-> summary, content |-> content,
     message |-> message]

\* The text_parts of a list of content blocks from block i on, or the exception
\* raised by block.get("text", "").strip() on a text that is null.
RECURSIVE TextParts(_, _, _)
TextParts(blocks, i, text_parts) ==
    IF i > Len(blocks) THEN [kind |-> "parts", parts |-> text_parts]
    ELSE IF blocks[i].kind = "dict" /\ blocks[i].type = "text"
         THEN IF blocks[i].text.kind = "null"
              THEN [kind |-> "raise", exc |-> "AttributeError"]
              ELSE LET text == IF blocks[i].text.kind = "absent" THEN <<>>
                               ELSE Strip(blocks[i].text.text)
                   IN  TextParts(blocks, i + 1,
                                 IF text # <<>> THEN Append(text_parts, text)
                                 ELSE text_parts)
    ELSE TextParts(blocks, i + 1, text_parts)

SummaryLine(text) == <<"[memory-summary]: ">> \o text

RoleLine(role, text) ==
    <<IF role = "user" THEN "[user]: " ELSE "[assistant]: ">> \o text

\* mutant: a record without text is emitted as an empty line
BlocksLines_KeepsEmpty(role, text_parts) == <<RoleLine(role, Join(text_parts, <<" ">>))>>

\* the lines appended for a record whose content is a list of blocks
BlocksLines(role, text_parts) ==
    IF text_parts # <<>> THEN <<RoleLine(role, Join(text_parts, <<" ">>))>> ELSE <<>>

\* One pass of the for loop over one line: the lines it appends, or the exception
\* it raises.
ParseLine(line) ==
    CASE line.kind \in {"blank", "invalid"} -> [kind |-> "lines", lines |-> <<>>]
      [] line.kind = "scalar" -> [kind |-> "raise", exc |-> "AttributeError"]
      [] OTHER ->
        IF EntryType(line.type) \in {"compaction", "branch_summary"}
        THEN LET s1 == _safe_text_from_value(line.summary)
                 s2 == _safe_text_from_value(line.content)
                 s3 == _safe_text_from_value(line.message)
                 summary_text == IF s1 # <<>> THEN s1 ELSE IF s2 # <<>> THEN s2 ELSE s3
             IN  [kind |-> "lines",
                  lines |-> IF summary_text # <<>> THEN <<SummaryLine(summary_text)>>
                            ELSE <<>>]
        ELSE IF line.message.kind = "absent" THEN [kind |-> "lines", lines |-> <<>>]
        ELSE IF line.message.kind # "dict"
             THEN [kind |-> "raise", exc |-> "AttributeError"]
        ELSE IF line.message.role \notin {"user", "assistant"}
             THEN [kind |-> "lines", lines |-> <<>>]
        ELSE IF line.message.content.kind = "str"
             THEN [kind |-> "lines",
                   lines |-> <<RoleLine(line.message.role, line.message.content.text)>>]
        ELSE IF line.message.content.kind = "absent"
             THEN [kind |-> "lines", lines |-> <<>>]
        ELSE IF line.message.content.kind # "list"
             THEN [kind |-> "raise", exc |-> "TypeError"]
        ELSE LET got == TextParts(line.message.content.blocks, 1, <<>>)
             IN  IF got.kind = "raise" THEN got
                 ELSE [kind |-> "lines",
                       lines |-> BlocksLines(line.message.role, got.parts)]

RECURSIVE ParseLoop(_, _, _)
ParseLoop(raw_lines, i, lines) ==
    IF i > Len(raw_lines) THEN [kind |-> "lines", lines |-> lines]
    ELSE LET got == ParseLine(raw_lines[i])
         IN  IF got.kind = "raise" THEN got
             ELSE ParseLoop(raw_lines, i + 1, lines \o got.lines)

\* The returned string "\n".join(lines), or the exception raised.
parse_jsonl_session_content(raw_lines) ==
    LET got == ParseLoop(raw_lines, 1, <<>>)
    IN  IF got.kind = "raise" THEN got
        ELSE [kind |-> "return", text |-> Join(got.lines, <<"\n">>),
              count |-> Len(got.lines)]

(***************************************************************************)
(* Session discovery and loading.  A JSON value of the sidecar index is a  *)
(* tagged record; a string value carries what float() and fromisoformat()  *)
(* make of it.  A file's content is its length and its stripped length.    *)
(***************************************************************************)

JNull == [kind |-> "null"]

JNum(n) == [kind |-> "num", v |-> n]

\* form: "numeric" (float(raw) succeeds with v), "iso" (fromisoformat succeeds,
\* timestamp v), "junk" (neither), "blank" (only whitespace), "empty"
JStr(form, n) == [kind |-> "str", form |-> form, v |-> n]

\* an integer literal of the index too large for a float, like 1 followed by 400
\* zeros
JBigInt == [kind |-> "bigint"]

Float(n) == [kind |-> "float", v |-> n]

\* Python truthiness of a JSON value
Truthy(value) ==
    CASE value.kind = "null" -> FALSE
      [] value.kind = "num" -> value.v # 0
      [] value.kind = "str" -> value.form # "empty"
      [] OTHER -> TRUE

\* a or b or c or d: the first truthy operand, the last operand when there is none
RECURSIVE OrChain(_)
OrChain(values) ==
    IF Len(values) = 1 \/ Truthy(Head(values)) THEN Head(values)
    ELSE OrChain(Tail(values))

_parse_timestamp_like(value) ==
    CASE value.kind = "null" -> None
      [] value.kind = "num" -> Float(value.v)
      [] value.kind = "bigint" -> [kind |-> "raise", exc |-> "OverflowError"]
      [] value.kind = "str" ->
            IF value.form \in {"blank", "empty"} THEN None
            ELSE IF value.form \in {"numeric", "iso"} THEN Float(value.v)
            ELSE None
      [] OTHER -> None

\* index_map.get(p.stem, {}) of a file the index does not list
NoMeta ==
    [updatedAt |-> JNull, lastMessageAt |-> JNull, timestamp |-> JNull,
     createdAt |-> JNull]

\* indexed_ts of a *.jsonl file: a float, None, or the exception float() raises
IndexedTs(file) ==
    _parse_timestamp_like(
        OrChain(<<file.meta.updatedAt, file.meta.lastMessageAt, file.meta.timestamp,
                  file.meta.createdAt>>))

\* The exception _parse_timestamp_like raises inside the loop over the *.jsonl
\* files, which _collect_session_files does not catch: the call raises it.
CollectRaises(dir) ==
    /\ dir.exists
    /\ \E i \in DOMAIN dir.files :
         dir.files[i].fmt = "jsonl" /\ IndexedTs(dir.files[i]).kind = "raise"

\* The timestamp _collect_session_files attaches to a file.
ResolvedTimestamp(file) ==
    IF file.fmt = "jsonl"
    THEN LET meta == file.meta
             indexed_ts == _parse_timestamp_like(
                OrChain(<<meta.updatedAt, meta.lastMessageAt, meta.timestamp,
                          meta.createdAt>>))
         IN  IF indexed_ts # None THEN indexed_ts.v ELSE file.mtime
    ELSE file.mtime

SessionEntry(file) == [ts |-> ResolvedTimestamp(file), file |-> file]

\* mutant: the sort is ascending
RECURSIVE InsertByTimestamp_Ascending(_, _)
InsertByTimestamp_Ascending(sorted, entry) ==
    IF sorted = <<>> THEN <<entry>>
    ELSE IF Head(sorted).ts <= entry.ts
         THEN <<Head(sorted)>> \o InsertByTimestamp_Ascending(Tail(sorted), entry)
         ELSE <<entry>> \o sorted

\* One insertion of the stable sort by decreasing timestamp: the entry goes after
\* every entry whose timestamp is not smaller.
RECURSIVE InsertByTimestamp(_, _)
InsertByTimestamp(sorted, entry) ==
    IF sorted = <<>> THEN <<entry>>
    ELSE IF Head(sorted).ts >= entry.ts
         THEN <<Head(sorted)>> \o InsertByTimestamp(Tail(sorted), entry)
         ELSE <<entry>> \o sorted

\* session_files.sort(key=lambda x: x[0], reverse=True)
RECURSIVE SortByTimestampDesc(_)
SortByTimestampDesc(entries) ==
    IF entries = <<>> THEN <<>>
    ELSE InsertByTimestamp(SortByTimestampDesc(SubSeq(entries, 1, Len(entries) - 1)),
                           entries[Len(entries)])

\* mutant: the cut keeps one entry too many
SliceTo_OneMore(s, n) == SubSeq(s, 1, Min(Len(s), n + 1))

\* s[:n] of Python
SliceTo(s, n) ==
    IF n >= 0 THEN SubSeq(s, 1, Min(Len(s), n))
    ELSE SubSeq(s, 1, Max(0, Len(s) + n))

\* The list session_files before it is sorted and cut: the *.jsonl files and the
\* qmd *.md files in glob order, or the transcript.md files when there are none.
SessionCandidates(dir) ==
    LET found == [i \in DOMAIN dir.files |-> SessionEntry(dir.files[i])]
    IN  IF found # <<>> THEN found
        ELSE [i \in DOMAIN dir.transcripts |-> SessionEntry(dir.transcripts[i])]

_collect_session_files(dir, max_sessions) ==
    IF ~ dir.exists THEN <<>>
    ELSE SliceTo(SortByTimestampDesc(SessionCandidates(dir)), max_sessions)

\* the largest timestamp datetime.fromtimestamp accepts
MaxPlatformTime == 50

\* len(f"=== SESSION:{session_name} DATE:{date_str} FMT:{fmt}" + ... + " ===")
HeaderLen(name_len, fmt_len, title_len, branch_len, parent_len) ==
    12 + name_len + 6 + 16 + 5 + fmt_len
    + (IF title_len > 0 THEN 7 + Min(title_len, 120) ELSE 0)
    + (IF branch_len > 0 THEN 8 + branch_len ELSE 0)
    + (IF parent_len > 0 THEN 8 + parent_len ELSE 0)
    + 4

FmtLen(fmt) == IF fmt = "jsonl" THEN 5 ELSE 2

\* a session whose stripped text is shorter is not loaded
MinSessionChars == 50

\* f"{header}\n{content}" of one session file
SessionPart(entry) ==
    [id |-> entry.file.stem,
     len |-> HeaderLen(entry.file.stem_len, FmtLen(entry.file.fmt), 0, 0, 0) + 1
             + entry.file.content.len]

\* The for loop of load_sessions from entry i on: the list parts, or the
\* exception raised by the parser or by datetime.fromtimestamp, neither of which
\* load_sessions catches.  A file that cannot be read raises an OSError, which it
\* does catch.
RECURSIVE LoadLoop(_, _, _)
LoadLoop(session_files, i, parts) ==
    IF i > Len(session_files) THEN [kind |-> "parts", parts |-> parts]
    ELSE IF session_files[i].file.fault = "unreadable"
         THEN LoadLoop(session_files, i + 1, parts)
    ELSE IF session_files[i].file.fmt = "jsonl" /\ session_files[i].file.fault = "malformed"
         THEN [kind |-> "raise", exc |-> "AttributeError", parts |-> parts]
    ELSE IF session_files[i].file.content.stripped < MinSessionChars
         THEN LoadLoop(session_files, i + 1, parts)
    ELSE IF session_files[i].ts > MaxPlatformTime
         THEN [kind |-> "raise", exc |-> "OverflowError", parts |-> parts]
    ELSE LoadLoop(session_files, i + 1, Append(parts, SessionPart(session_files[i])))

\* mutant: a text of exactly 50 characters is left out as well
process_session_file_InclusiveThreshold(entry) ==
    IF entry.file.fault = "unreadable" THEN None
    ELSE IF entry.file.fmt = "jsonl" /\ entry.file.fault = "malformed"
         THEN [kind |-> "raise", exc |-> "AttributeError"]
    ELSE IF entry.file.content.stripped <= MinSessionChars THEN None
    ELSE IF entry.ts > MaxPlatformTime
         THEN [kind |-> "raise", exc |-> "OverflowError"]
    ELSE [kind |-> "str", part |-> SessionPart(entry)]

\* process_session_file: None, the formatted text f"{header}\n{content}", or the
\* exception it lets through (it catches PermissionError, UnicodeDecodeError and
\* OSError only).
process_session_file(entry) ==
    IF entry.file.fault = "unreadable" THEN None
    ELSE IF entry.file.fmt = "jsonl" /\ entry.file.fault = "malformed"
         THEN [kind |-> "raise", exc |-> "AttributeError"]
    ELSE IF entry.file.content.stripped < MinSessionChars THEN None
    ELSE IF entry.ts > MaxPlatformTime
         THEN [kind |-> "raise", exc |-> "OverflowError"]
    ELSE [kind |-> "str", part |-> SessionPart(entry)]

\* mutant: the results are taken in the order in which the tasks completed
TruthyResults_CompletionOrder(tasks) ==
    LET kept == {i \in DOMAIN tasks : tasks[i].outcome.kind = "str"}
        order == CHOOSE f \in [1..Cardinality(kept) -> kept] :
                     \A a, b \in 1..Cardinality(kept) :
                         a < b => tasks[f[a]].rank < tasks[f[b]].rank
    IN  [n \in 1..Cardinality(kept) |-> tasks[order[n]].outcome.part]

\* [item for item in results if item]
TruthyResults(tasks) ==
    LET kept == SelectSeq(tasks, LAMBDA t : t.outcome.kind = "str")
    IN  [i \in DOMAIN kept |-> kept[i].outcome.part]

load_sessions(dir, max_sessions, max_chars) ==
    LET session_files == _collect_session_files(dir, max_sessions)
        loaded == LoadLoop(session_files, 1, <<>>)
    IN  IF CollectRaises(dir) THEN [kind |-> "raise", exc |-> "OverflowError"]
        ELSE IF session_files = <<>>
        THEN [kind |-> "sentinel", parts |-> <<>>, text |-> NoSessionsAvailable,
              len |-> 23]
        ELSE IF loaded.kind = "raise"
        THEN [kind |-> "raise", exc |-> loaded.exc]
        ELSE _assemble_session_parts(loaded.parts, max_chars)

(***************************************************************************)
(* _load_sessions_index_map.  The payload of sessions.json is a JSON       *)
(* value: a list of items, an object (its members in file order) or a      *)
(* scalar.  An index entry is an object with the fields id, sessionId and  *)
(* uuid, "" when the field is missing; pos tells the entries of a file     *)
(* apart.  The returned dict is a function from identifiers to entries.    *)
(***************************************************************************)

JScalar == [kind |-> "scalar"]

JList(items) == [kind |-> "list", items |-> items]

JDict(pairs) == [kind |-> "dict", pairs |-> pairs]

IndexEntry(pos, id, sessionId, uuid) ==
    [kind |-> "entry", pos |-> pos, id |-> id, sessionId |-> sessionId, uuid |-> uuid]

\* a or b or ... or "": the first non-empty string
RECURSIVE FirstTruthy(_)
FirstTruthy(texts) ==
    IF texts = <<>> THEN ""
    ELSE IF Head(texts) # "" THEN Head(texts)
    ELSE FirstTruthy(Tail(texts))

\* str(value).strip() of the identifiers of the model
StripId(text) == IF text = " " THEN "" ELSE text

EmptyMap == [k \in {} |-> None]

\* out[session_id] = item
Put(out, session_id, item) ==
    [k \in DOMAIN out \cup {session_id} |-> IF k = session_id THEN item ELSE out[k]]

\* The loop over the items of a list (formats A and C): the identifier is
\* id or sessionId or uuid, and a later item replaces an earlier one.
RECURSIVE ListLoop(_, _, _)
ListLoop(items, i, out) ==
    IF i > Len(items) THEN out
    ELSE IF items[i].kind # "entry" THEN ListLoop(items, i + 1, out)
    ELSE LET session_id == StripId(FirstTruthy(<<items[i].id, items[i].sessionId,
                                                 items[i].uuid>>))
         IN  IF session_id # ""
             THEN ListLoop(items, i + 1, Put(out, session_id, items[i]))
             ELSE ListLoop(items, i + 1, out)

\* The loop over payload.values() (format B): the identifier is sessionId or id,
\* and an identifier already in the map keeps its entry.  A value that is an
\* object without these fields, like a nested map, has no identifier.
RECURSIVE ValuesLoop(_, _, _)
ValuesLoop(pairs, i, out) ==
    IF i > Len(pairs) THEN out
    ELSE IF pairs[i].value.kind # "entry" THEN ValuesLoop(pairs, i + 1, out)
    ELSE LET session_id == StripId(FirstTruthy(<<pairs[i].value.sessionId,
                                                 pairs[i].value.id>>))
         IN  IF session_id # "" /\ session_id \notin DOMAIN out
             THEN ValuesLoop(pairs, i + 1, Put(out, session_id, pairs[i].value))
             ELSE ValuesLoop(pairs, i + 1, out)

\* payload.get(key, default)
Get(pairs, key, default) ==
    LET found == SelectSeq(pairs, LAMBDA pr : pr.key = key)
    IN  IF found # <<>> THEN found[Len(found)].value ELSE default

\* The sidecar file: missing, unreadable (read_text raises OSError), not JSON
\* (json.loads raises JSONDecodeError), nested too deep (json.loads raises
\* RecursionError), holding an integer of more than 4300 digits (json.loads
\* raises ValueError), or holding a payload.
_load_sessions_index_map(sidecar) ==
    CASE sidecar.state = "missing" -> [kind |-> "dict", map |-> EmptyMap]
      [] sidecar.state \in {"unreadable", "not_json"} ->
            [kind |-> "dict", map |-> EmptyMap]
      [] sidecar.state = "too_deep" -> [kind |-> "raise", exc |-> "RecursionError"]
      [] sidecar.state = "huge_int" -> [kind |-> "raise", exc |-> "ValueError"]
      [] OTHER ->
            LET payload == sidecar.payload
            IN  IF payload.kind = "dict"
                THEN LET list_entries == Get(payload.pairs, "sessions",
                                             Get(payload.pairs, "items", JScalar))
                         from_list == IF list_entries.kind = "list"
                                      THEN ListLoop(list_entries.items, 1, EmptyMap)
                                      ELSE EmptyMap
                     IN  [kind |-> "dict",
                          map |-> ValuesLoop(payload.pairs, 1, from_list)]
                ELSE IF payload.kind = "list"
                THEN [kind |-> "dict", map |-> ListLoop(payload.items, 1, EmptyMap)]
                ELSE [kind |-> "dict", map |-> EmptyMap]

(***************************************************************************)
(* _resolve_model_pricing.  A model name is a sequence of pieces of text   *)
(* none of which is a prefix of another, so that str.startswith is the     *)
(* prefix relation on the sequences.  Prices are in cents per 1M tokens.   *)
(***************************************************************************)

\* MODEL_PRICING_USD_PER_1M in the order of the dict
MODEL_PRICING_USD_PER_1M ==
    << [key |-> <<"kimi-k2", ".5">>,
        prices |-> [prompt |-> 60, completion |-> 300, caching |-> 10]],
       [key |-> <<"kimi-k2", "-turbo", "-preview">>,
        prices |-> [prompt |-> 115, completion |-> 800, caching |-> 15]],
       [key |-> <<"kimi-k2", "-turbo">>,
        prices |-> [prompt |-> 115, completion |-> 800, caching |-> 15]],
       [key |-> <<"kimi-k2", "-thinking", "-turbo">>,
        prices |-> [prompt |-> 115, completion |-> 800, caching |-> 15]] >>

\* model_name.startswith(known_name)
StartsWith(model_name, known_name) ==
    /\ Len(known_name) <= Len(model_name)
    /\ SubSeq(model_name, 1, Len(known_name)) = known_name

\* mutant: the last key of the table that is a prefix of the name
FirstPrefixMatch_LastKey(model_name, i) ==
    LET matching == {j \in DOMAIN MODEL_PRICING_USD_PER_1M :
                        StartsWith(model_name, MODEL_PRICING_USD_PER_1M[j].key)}
    IN  IF matching = {} THEN None
        ELSE MODEL_PRICING_USD_PER_1M[CHOOSE j \in matching : \A k \in matching : k <= j]

\* The for loop over the items of the table from item i on: the first key that
\* the name starts with.
RECURSIVE FirstPrefixMatch(_, _)
FirstPrefixMatch(model_name, i) ==
    IF i > Len(MODEL_PRICING_USD_PER_1M) THEN None
    ELSE IF StartsWith(model_name, MODEL_PRICING_USD_PER_1M[i].key)
         THEN MODEL_PRICING_USD_PER_1M[i]
    ELSE FirstPrefixMatch(model_name, i + 1)

\* The returned dict, with the key of the table it belongs to, or None.
_resolve_model_pricing(model_name) ==
    IF \E i \in DOMAIN MODEL_PRICING_USD_PER_1M :
            MODEL_PRICING_USD_PER_1M[i].key = model_name
    THEN MODEL_PRICING_USD_PER_1M[
            CHOOSE i \in DOMAIN MODEL_PRICING_USD_PER_1M :
                MODEL_PRICING_USD_PER_1M[i].key = model_name]
    ELSE FirstPrefixMatch(model_name, 1)

(***************************************************************************)
(* Error texts.  An exception message is a sequence of words; a marker of  *)
(* the code's substring tests is one word.  str(error).lower() lower-cases *)
(* every word, `marker in error_text` is the occurrence of the word.       *)
(***************************************************************************)

LowerWord(w) ==
    CASE w = "Error" -> "error"
      [] w = "Quota" -> "quota"
      [] w = "Connection" -> "connection"
      [] w = "Timeout" -> "timeout"
      [] w = "Request" -> "request"
      [] w = "Timed Out" -> "timed out"
      [] w = "Model" -> "model"
      [] OTHER -> w

Lower(text) == [i \in DOMAIN text |-> LowerWord(text[i])]

Contains(text, marker) == \E i \in DOMAIN text : text[i] = marker

RateLimitMarkers == {"429", "rate limit", "quota"}

RetryableMarkers ==
    {"timeout", "timed out", "connection reset", "temporarily unavailable",
     "temporary", "502", "503", "504"}

\* mutant: the "quota" marker is forgotten
_is_rate_limited_error_NoQuota(error_text) ==
    Contains(error_text, "429") \/ Contains(error_text, "rate limit")

_is_rate_limited_error(error_text) ==
    \E marker \in RateLimitMarkers : Contains(error_text, marker)

_is_retryable_error(error_text) ==
    \E marker \in RetryableMarkers : Contains(error_text, marker)

RateLimitResponse == "Kimi API rate limit reached. Please try again in a few minutes."

\* mutant: the retry bound is tested with < in place of <=
HandleCompletionError_RetryOffByOne(error, attempt, max_retries, retry_backoff_seconds) ==
    LET error_text == Lower(error)
        can_retry == attempt < max_retries /\ _is_retryable_error(error_text)
    IN  IF _is_rate_limited_error(error_text)
        THEN [ends |-> "return", slept |-> <<>>,
              result |-> [response |-> RateLimitResponse, attempts |-> attempt,
                          status |-> "rate_limited"]]
        ELSE IF can_retry
        THEN [ends |-> "continue", slept |-> <<retry_backoff_seconds * attempt>>]
        ELSE [ends |-> "raise", slept |-> <<>>, exc |-> error]

\* mutant: the backoff does not grow with the attempt number
HandleCompletionError_ConstantBackoff(error, attempt, max_retries, retry_backoff_seconds) ==
    LET error_text == Lower(error)
        can_retry == attempt <= max_retries /\ _is_retryable_error(error_text)
    IN  IF _is_rate_limited_error(error_text)
        THEN [ends |-> "return", slept |-> <<>>,
              result |-> [response |-> RateLimitResponse, attempts |-> attempt,
                          status |-> "rate_limited"]]
        ELSE IF can_retry
        THEN [ends |-> "continue", slept |-> <<retry_backoff_seconds>>]
        ELSE [ends |-> "raise", slept |-> <<>>, exc |-> error]

\* mutant: a new exception is raised from the lower-cased text
HandleCompletionError_RaisesLowered(error, attempt, max_retries, retry_backoff_seconds) ==
    LET error_text == Lower(error)
        can_retry == attempt <= max_retries /\ _is_retryable_error(error_text)
    IN  IF _is_rate_limited_error(error_text)
        THEN [ends |-> "return", slept |-> <<>>,
              result |-> [response |-> RateLimitResponse, attempts |-> attempt,
                          status |-> "rate_limited"]]
        ELSE IF can_retry
        THEN [ends |-> "continue", slept |-> <<retry_backoff_seconds * attempt>>]
        ELSE [ends |-> "raise", slept |-> <<>>, exc |-> error_text]

\* mutant: the transient test comes before the rate-limit test
HandleCompletionError_RetryFirst(error, attempt, max_retries, retry_backoff_seconds) ==
    LET error_text == Lower(error)
        can_retry == attempt <= max_retries /\ _is_retryable_error(error_text)
    IN  IF can_retry
        THEN [ends |-> "continue", slept |-> <<retry_backoff_seconds * attempt>>]
        ELSE IF _is_rate_limited_error(error_text)
        THEN [ends |-> "return", slept |-> <<>>,
              result |-> [response |-> RateLimitResponse, attempts |-> attempt,
                          status |-> "rate_limited"]]
        ELSE [ends |-> "raise", slept |-> <<>>, exc |-> error]

\* mutant: one retry more than max_retries is allowed
HandleCompletionError_RetryOneMore(error, attempt, max_retries, retry_backoff_seconds) ==
    LET error_text == Lower(error)
        can_retry == attempt <= max_retries + 1 /\ _is_retryable_error(error_text)
    IN  IF _is_rate_limited_error(error_text)
        THEN [ends |-> "return", slept |-> <<>>,
              result |-> [response |-> RateLimitResponse, attempts |-> attempt,
                          status |-> "rate_limited"]]
        ELSE IF can_retry
        THEN [ends |-> "continue", slept |-> <<retry_backoff_seconds * attempt>>]
        ELSE [ends |-> "raise", slept |-> <<>>, exc |-> error]

\* What the except block of run_rlm does with the exception `error` of attempt
\* number `attempt`: return a dict, sleep and go round the loop, or re-raise.
HandleCompletionError(error, attempt, max_retries, retry_backoff_seconds) ==
    LET error_text == Lower(error)
        can_retry == attempt <= max_retries /\ _is_retryable_error(error_text)
    IN  IF _is_rate_limited_error(error_text)
        THEN [ends |-> "return", slept |-> <<>>,
              result |-> [response |-> RateLimitResponse, attempts |-> attempt,
                          status |-> "rate_limited"]]
        ELSE IF can_retry
        THEN [ends |-> "continue", slept |-> <<retry_backoff_seconds * attempt>>]
        ELSE [ends |-> "raise", slept |-> <<>>, exc |-> error]

\* The dict run_rlm returns when rlm.completion succeeds.
CompletionResult(response, root_model, sub_model, attempt) ==
    [response |-> response, model_used |-> root_model, sub_model_used |-> sub_model,
     attempts |-> attempt, status |-> "ok"]

\* mutant: the secondary backend is configured whenever a sub model is given
RlmKwargs_AlwaysSecondary(root_model, sub_model) ==
    [model_name |-> root_model,
     other_backend_kwargs |-> IF sub_model # "" THEN <<sub_model>> ELSE <<>>]

\* The keyword arguments of _create_rlm: the primary backend, and the secondary
\* one only when a sub model is given and differs from the primary.
RlmKwargs(root_model, sub_model) ==
    [model_name |-> root_model,
     other_backend_kwargs |->
        IF sub_model # "" /\ sub_model # root_model THEN <<sub_model>> ELSE <<>>]

MODEL_PROFILES ==
    [cost |-> [root |-> "kimi-k2.5", sub |-> "kimi-k2.5", fallback |-> "kimi-k2-turbo"],
     balanced |-> [root |-> "kimi-k2.5", sub |-> "kimi-k2.5", fallback |-> "kimi-k2-turbo"],
     speed |-> [root |-> "kimi-k2.5", sub |-> "kimi-k2-turbo-preview",
                fallback |-> "kimi-k2-turbo-preview"]]

\* `args.x or default` for a string option that is "" when not given
OrElse(value, default) == IF value # "" THEN value ELSE default

\* The keyword arguments main_async passes to the primary run_rlm.
PrimaryCall(args) ==
    [phase |-> "primary",
     context |-> args.context_payload,
     root_model |-> OrElse(args.root_model, MODEL_PROFILES[args.profile_model].root),
     sub_model |-> OrElse(args.sub_model, MODEL_PROFILES[args.profile_model].sub),
     max_retries |-> Max(0, args.max_retries),
     retry_backoff_seconds |-> Max(0, args.retry_backoff_seconds)]

\* mutant: the fallback keeps the primary call's sub model
FallbackCall_KeepsSubModel(args) ==
    [phase |-> "fallback",
     context |-> args.context_payload,
     root_model |-> OrElse(args.fallback_model, MODEL_PROFILES[args.profile_model].fallback),
     sub_model |-> OrElse(args.sub_model, MODEL_PROFILES[args.profile_model].sub),
     max_retries |-> Max(0, args.max_retries),
     retry_backoff_seconds |-> Max(0, args.retry_backoff_seconds)]

\* The keyword arguments main_async passes to the fallback run_rlm.
FallbackCall(args) ==
    LET fallback_model ==
            OrElse(args.fallback_model, MODEL_PROFILES[args.profile_model].fallback)
    IN  [phase |-> "fallback",
         context |-> args.context_payload,
         root_model |-> fallback_model,
         sub_model |-> fallback_model,
         max_retries |-> Max(0, args.max_retries),
         retry_backoff_seconds |-> Max(0, args.retry_backoff_seconds)]

\* mutant: only the fallback failure is reported
BothFailedResult_FallbackOnly(error, fallback_error) ==
    [response |-> <<"Error: Could not process. Fallback: ", fallback_error>>,
     status |-> "error"]

\* The result main_async builds when the fallback run_rlm raises too:
\* f"Error: Could not process. Primary: {error}, Fallback: {fallback_error}"
BothFailedResult(error, fallback_error) ==
    [response |-> <<"Error: Could not process. Primary: ", error, ", Fallback: ",
                    fallback_error>>,
     status |-> "error"]

NoApiKeyResult ==
    [response |-> "Error: MOONSHOT_API_KEY not set. Get key at https://platform.moonshot.ai/",
     status |-> "error"]

SkippedResult == [response |-> "Not enough history to analyze.", status |-> "skipped"]

\* below this many context characters main_async does not call the backend
MinContextChars == 100

\* Bounds of the assembler's inputs.
MaxParts == 3

PartLens == {0, 40, 1001, 1500, 3000}

BudgetChoices == {0, 1000, 1040, 2001, 2501, 5000}

\* parts of the given lengths, identified by their position
PartsOfLens(lens) == [i \in 1..Len(lens) |-> [id |-> i, len |-> lens[i]]]

AssembleInit ==
    /\ a_parts \in {PartsOfLens(lens) : lens \in SeqUpTo(PartLens, MaxParts)}
    /\ a_max_chars \in BudgetChoices
    /\ a_result = None

AssembleIdle ==
    /\ a_parts = <<>>
    /\ a_max_chars = 0
    /\ a_result = None

\* A call of _assemble_session_parts(a_parts, a_max_chars).
Assemble ==
    /\ a_result.kind = "None"
    /\ a_result' = _assemble_session_parts(a_parts, a_max_chars)
    /\ UNCHANGED <<a_parts, a_max_chars>>
    /\ UNCHANGED <<m_vars, r_vars, s_vars, p_vars, i_vars, k_vars,
                 c_vars, b_vars, w_vars>>

(***************************************************************************)
(* run_rlm and main_async                                                  *)
(***************************************************************************)

\* Bounds of the orchestrator's inputs.
MaxRetriesArg == 2

MaxBackoffArg == 2

ErrorTexts ==
    { <<"Quota", "exceeded">>,
      <<"429", "Timeout">>,
      <<"Connection", "timeout">>,
      <<"Request", "Timed Out">>,
      <<"Model", "unavailable">> }

ProfileChoices == {"cost", "speed"}

ContextPayloads ==
    { [kind |-> "string", chars |-> 99],
      [kind |-> "string", chars |-> 5000],
      [kind |-> "chunks", chars |-> 100] }

ArgsChoices ==
    [profile_model : ProfileChoices,
     root_model : {""},
     sub_model : {""},
     fallback_model : {"", "kimi-k2-thinking-turbo"},
     max_retries : -1..MaxRetriesArg,
     retry_backoff_seconds : {-1, MaxBackoffArg},
     api_key : {"", "sk-key"},
     context_payload : ContextPayloads]

RunIdle ==
    /\ r_call = None
    /\ r_pc = "idle"
    /\ r_attempt = 0
    /\ r_rlm = None
    /\ r_result = None
    /\ r_exc = None
    /\ runs = <<>>
    /\ calls = <<>>
    /\ created = 0

MainInit ==
    /\ m_args \in ArgsChoices
    /\ m_pc = "start"
    /\ m_error = None
    /\ m_result = None
    /\ m_output = None
    /\ RunIdle

MainIdle ==
    /\ m_args = None
    /\ m_pc = "idle"
    /\ m_error = None
    /\ m_result = None
    /\ m_output = None
    /\ RunIdle

\* run_rlm is entered with the keyword arguments `call`.
EnterRunRlm(call) ==
    /\ r_call' = call
    /\ r_pc' = "loop"
    /\ r_attempt' = 0
    /\ r_rlm' = None
    /\ r_result' = None
    /\ r_exc' = None
    /\ runs' = Append(runs, call)
    /\ UNCHANGED <<calls, created>>

\* The top of the while loop: attempt += 1 and a backend object is built.
RunCreateRlm ==
    /\ r_pc = "loop"
    /\ r_attempt' = r_attempt + 1
    /\ r_rlm' = [serial |-> created + 1,
                 kwargs |-> RlmKwargs(r_call.root_model, r_call.sub_model)]
    /\ created' = created + 1
    /\ r_pc' = "completion"
    /\ UNCHANGED <<r_call, r_result, r_exc, runs, calls>>
    /\ UNCHANGED <<a_vars, m_vars, s_vars, p_vars, i_vars, k_vars,
                 c_vars, b_vars, w_vars>>

CallRecord(outcome, handled) ==
    [phase |-> r_call.phase, attempt |-> r_attempt, rlm |-> r_rlm,
     prompt |-> r_call.context, outcome |-> outcome, ends |-> handled.ends,
     slept |-> handled.slept,
     returned |-> IF handled.ends = "return" THEN <<handled.result>> ELSE <<>>,
     raised |-> IF handled.ends = "raise" THEN <<handled.exc>> ELSE <<>>]

\* rlm.completion returns: run_rlm returns the ok dict.
RunCompletionOk ==
    /\ r_pc = "completion"
    /\ r_result' = CompletionResult("answer", r_call.root_model, r_call.sub_model,
                                    r_attempt)
    /\ r_pc' = "returned"
    /\ calls' = Append(calls, CallRecord([ok |-> TRUE, error |-> <<>>],
                                         [ends |-> "return", slept |-> <<>>,
                                          result |-> r_result']))
    /\ UNCHANGED <<r_call, r_attempt, r_rlm, r_exc, runs, created>>
    /\ UNCHANGED <<a_vars, m_vars, s_vars, p_vars, i_vars, k_vars,
                 c_vars, b_vars, w_vars>>

\* rlm.completion raises `error`: the except block.
RunCompletionFails ==
    /\ r_pc = "completion"
    /\ \E error \in ErrorTexts :
         LET handled == HandleCompletionError(error, r_attempt, r_call.max_retries,
                                              r_call.retry_backoff_seconds)
         IN  /\ calls' = Append(calls, CallRecord([ok |-> FALSE, error |-> error],
                                                  handled))
             /\ r_pc' = CASE handled.ends = "return" -> "returned"
                          [] handled.ends = "continue" -> "loop"
                          [] OTHER -> "raised"
             /\ r_result' = IF handled.ends = "return" THEN handled.result ELSE r_result
             /\ r_exc' = IF handled.ends = "raise" THEN handled.exc ELSE r_exc
    /\ UNCHANGED <<r_call, r_attempt, r_rlm, runs, created>>
    /\ UNCHANGED <<a_vars, m_vars, s_vars, p_vars, i_vars, k_vars,
                 c_vars, b_vars, w_vars>>

\* The keyword arguments of a call of run_rlm made by a caller other than
\* main_async; sub_model is "" when the caller gives none.
DirectCalls ==
    [phase : {"direct"},
     context : {[kind |-> "string", chars |-> 5000]},
     root_model : {"kimi-k2.5"},
     sub_model : {"", "kimi-k2.5", "kimi-k2-turbo"},
     max_retries : 0..MaxRetriesArg,
     retry_backoff_seconds : {MaxBackoffArg}]

\* run_rlm(...) called directly.
CallRunRlm ==
    /\ m_pc = "idle"
    /\ r_pc = "idle"
    /\ runs = <<>>
    /\ \E call \in DirectCalls : EnterRunRlm(call)
    /\ UNCHANGED <<a_vars, m_vars, s_vars, p_vars, i_vars, k_vars,
                 c_vars, b_vars, w_vars>>

RunNext ==
    \/ CallRunRlm
    \/ RunCreateRlm
    \/ RunCompletionOk
    \/ RunCompletionFails

\* main_async without an API key: prints the error JSON and exits.
MainNoApiKey ==
    /\ m_pc = "start"
    /\ m_args.api_key = ""
    /\ m_output' = NoApiKeyResult
    /\ m_pc' = "exited"
    /\ UNCHANGED <<m_args, m_error, m_result>>
    /\ UNCHANGED <<a_vars, r_vars, s_vars, p_vars, i_vars, k_vars,
                 c_vars, b_vars, w_vars>>

\* main_async with too little context: no backend call.
MainSkip ==
    /\ m_pc = "start"
    /\ m_args.api_key # ""
    /\ m_args.context_payload.chars < MinContextChars
    /\ m_result' = SkippedResult
    /\ m_pc' = "emit"
    /\ UNCHANGED <<m_args, m_error, m_output>>
    /\ UNCHANGED <<a_vars, r_vars, s_vars, p_vars, i_vars, k_vars,
                 c_vars, b_vars, w_vars>>

\* main_async calls run_rlm with the primary models.
MainCallPrimary ==
    /\ m_pc = "start"
    /\ m_args.api_key # ""
    /\ ~ (m_args.context_payload.chars < MinContextChars)
    /\ EnterRunRlm(PrimaryCall(m_args))
    /\ m_pc' = "primary"
    /\ UNCHANGED <<m_args, m_error, m_result, m_output>>
    /\ UNCHANGED <<a_vars, s_vars, p_vars, i_vars, k_vars,
                 c_vars, b_vars, w_vars>>

\* The primary run_rlm returned a dict.
MainPrimaryReturned ==
    /\ m_pc = "primary"
    /\ r_pc = "returned"
    /\ m_result' = r_result
    /\ m_pc' = "emit"
    /\ r_pc' = "idle"
    /\ UNCHANGED <<m_args, m_error, m_output>>
    /\ UNCHANGED <<r_call, r_attempt, r_rlm, r_result, r_exc, runs, calls, created>>
    /\ UNCHANGED <<a_vars, s_vars, p_vars, i_vars, k_vars,
                 c_vars, b_vars, w_vars>>

\* The primary run_rlm raised: `except Exception as error`, and the fallback call.
MainPrimaryRaised ==
    /\ m_pc = "primary"
    /\ r_pc = "raised"
    /\ m_error' = r_exc
    /\ EnterRunRlm(FallbackCall(m_args))
    /\ m_pc' = "fallback"
    /\ UNCHANGED <<m_args, m_result, m_output>>
    /\ UNCHANGED <<a_vars, s_vars, p_vars, i_vars, k_vars,
                 c_vars, b_vars, w_vars>>

\* The fallback run_rlm returned: result["fallback_reason"] = str(error).
MainFallbackReturned ==
    /\ m_pc = "fallback"
    /\ r_pc = "returned"
    /\ m_result' = [f \in DOMAIN r_result \cup {"fallback_reason"} |->
                       IF f = "fallback_reason" THEN m_error ELSE r_result[f]]
    /\ m_pc' = "emit"
    /\ r_pc' = "idle"
    /\ UNCHANGED <<m_args, m_error, m_output>>
    /\ UNCHANGED <<r_call, r_attempt, r_rlm, r_result, r_exc, runs, calls, created>>
    /\ UNCHANGED <<a_vars, s_vars, p_vars, i_vars, k_vars,
                 c_vars, b_vars, w_vars>>

\* The fallback run_rlm raised too: `except Exception as fallback_error`.
MainFallbackRaised ==
    /\ m_pc = "fallback"
    /\ r_pc = "raised"
    /\ m_result' = BothFailedResult(m_error, r_exc)
    /\ m_pc' = "emit"
    /\ r_pc' = "idle"
    /\ UNCHANGED <<m_args, m_error, m_output>>
    /\ UNCHANGED <<r_call, r_attempt, r_rlm, r_result, r_exc, runs, calls, created>>
    /\ UNCHANGED <<a_vars, s_vars, p_vars, i_vars, k_vars,
                 c_vars, b_vars, w_vars>>

\* result.setdefault("status", "ok") and print(json.dumps(result)).
MainEmit ==
    /\ m_pc = "emit"
    /\ m_output' = IF "status" \in DOMAIN m_result
                   THEN m_result
                   ELSE [f \in DOMAIN m_result \cup {"status"} |->
                            IF f = "status" THEN "ok" ELSE m_result[f]]
    /\ m_pc' = "done"
    /\ UNCHANGED <<m_args, m_error, m_result>>
    /\ UNCHANGED <<a_vars, r_vars, s_vars, p_vars, i_vars, k_vars,
                 c_vars, b_vars, w_vars>>

MainNext ==
    \/ MainNoApiKey
    \/ MainSkip
    \/ MainCallPrimary
    \/ RunCreateRlm
    \/ RunCompletionOk
    \/ RunCompletionFails
    \/ MainPrimaryReturned
    \/ MainPrimaryRaised
    \/ MainFallbackReturned
    \/ MainFallbackRaised
    \/ MainEmit

(***************************************************************************)
(* Calls of _collect_session_files and load_sessions on a sessions         *)
(* directory.                                                              *)
(***************************************************************************)

\* Bounds of the directory and of the arguments.
MaxTime == 3

MaxSessionsArg == 3

\* a numeric string of the index beyond the platform's time range, like "1e20"
OverflowTime == 100

SessionStems == <<"s1", "s2", "s3">>

ShortContent == [len |-> 49, stripped |-> 49]

LongContent == [len |-> 1200, stripped |-> 1200]

\* a text of exactly the minimum length, followed by a newline
BoundaryContent == [len |-> 51, stripped |-> 50]

IndexedMetas ==
    { [NoMeta EXCEPT !.updatedAt = JStr("numeric", 2)],
      [NoMeta EXCEPT !.updatedAt = JStr("numeric", OverflowTime)] }

\* fault: "unreadable" (reading the file raises PermissionError), "malformed" (a
\* line of the transcript is JSON but not an object, and the parser raises)
FileChoices ==
    {[fmt |-> "jsonl", mtime |-> t, meta |-> NoMeta, content |-> c, fault |-> "none"] :
        t \in 1..MaxTime, c \in {ShortContent, LongContent}}
    \cup {[fmt |-> "jsonl", mtime |-> 1, meta |-> m, content |-> c, fault |-> "none"] :
        m \in IndexedMetas, c \in {ShortContent, LongContent}}
    \cup {[fmt |-> "md", mtime |-> t, meta |-> NoMeta, content |-> LongContent,
           fault |-> "none"] : t \in 1..MaxTime}
    \cup {[fmt |-> "jsonl", mtime |-> 1, meta |-> NoMeta, content |-> LongContent,
           fault |-> f] : f \in {"unreadable", "malformed"}}
    \cup {[fmt |-> "md", mtime |-> 1, meta |-> NoMeta, content |-> BoundaryContent,
           fault |-> "none"]}

Named(choice, stem) ==
    [stem |-> stem, stem_len |-> 2, fmt |-> choice.fmt, mtime |-> choice.mtime,
     meta |-> choice.meta, content |-> choice.content, fault |-> choice.fault]

TranscriptMd ==
    [stem |-> "transcript", stem_len |-> 10, fmt |-> "md", mtime |-> 2,
     meta |-> NoMeta, content |-> LongContent, fault |-> "none"]

DirChoices ==
    {[exists |-> FALSE, files |-> <<>>, transcripts |-> <<>>]}
    \cup {[exists |-> TRUE,
           files |-> [i \in DOMAIN choices |-> Named(choices[i], SessionStems[i])],
           transcripts |-> t] :
            choices \in SeqUpTo(FileChoices, Len(SessionStems)),
            t \in {<<>>}}
    \cup {[exists |-> TRUE, files |-> <<>>, transcripts |-> <<TranscriptMd>>]}

LoadBudgets == {2000, 2400, 10000}

SessionsInit ==
    /\ s_dir \in DirChoices
    /\ s_call = None
    /\ s_result = None
    /\ s_tasks = <<>>
    /\ s_gather = None

SessionsIdle ==
    /\ s_dir = None
    /\ s_call = None
    /\ s_result = None
    /\ s_tasks = <<>>
    /\ s_gather = None

\* A call of _collect_session_files(sessions_dir, max_sessions).
CallCollectSessionFiles ==
    /\ s_call = None
    /\ \E max_sessions \in 0..MaxSessionsArg :
         /\ s_call' = [fn |-> "_collect_session_files", max_sessions |-> max_sessions]
         /\ s_result' = IF CollectRaises(s_dir)
                         THEN [kind |-> "raise", exc |-> "OverflowError"]
                         ELSE [kind |-> "list",
                               value |-> _collect_session_files(s_dir, max_sessions)]
    /\ UNCHANGED <<s_dir, s_tasks, s_gather>>
    /\ UNCHANGED <<a_vars, m_vars, r_vars, p_vars, i_vars, k_vars,
                 c_vars, b_vars, w_vars>>

\* A call of load_sessions(sessions_dir, max_sessions, max_chars).
CallLoadSessions ==
    /\ s_call = None
    /\ \E max_sessions \in 0..MaxSessionsArg, max_chars \in LoadBudgets :
         /\ s_call' = [fn |-> "load_sessions", max_sessions |-> max_sessions,
                       max_chars |-> max_chars]
         /\ s_result' = load_sessions(s_dir, max_sessions, max_chars)
    /\ UNCHANGED <<s_dir, s_tasks, s_gather>>
    /\ UNCHANGED <<a_vars, m_vars, r_vars, p_vars, i_vars, k_vars,
                 c_vars, b_vars, w_vars>>

\* load_sessions_parallel up to `await asyncio.gather(*tasks)`: the files are
\* collected and one process_session_file task is created per file; with no file
\* the call returns at once.
ParallelStart ==
    /\ s_call = None
    /\ \E max_sessions \in 0..MaxSessionsArg, max_chars \in LoadBudgets :
         LET session_files == _collect_session_files(s_dir, max_sessions)
         IN  /\ s_call' = [fn |-> "load_sessions_parallel",
                           max_sessions |-> max_sessions, max_chars |-> max_chars]
             /\ IF CollectRaises(s_dir)
                THEN /\ s_result' = [kind |-> "raise", exc |-> "OverflowError"]
                     /\ s_tasks' = <<>>
                ELSE IF session_files = <<>>
                THEN /\ s_result' = [kind |-> "sentinel", parts |-> <<>>,
                                     text |-> NoSessionsAvailable, len |-> 23]
                     /\ s_tasks' = <<>>
                ELSE /\ s_result' = None
                     /\ s_tasks' = [i \in DOMAIN session_files |->
                                      [entry |-> session_files[i], done |-> FALSE,
                                       rank |-> 0, outcome |-> None]]
    /\ UNCHANGED <<s_dir, s_gather>>
    /\ UNCHANGED <<a_vars, m_vars, r_vars, p_vars, i_vars, k_vars,
                 c_vars, b_vars, w_vars>>

\* One task of the gather runs process_session_file to its end, in any order
\* among the tasks; rank is its place in the order of completion.  gather completes with the list of results when its last task
\* ends, and with the first exception a task raises as soon as it is raised.
TaskRuns(i) ==
    /\ s_call # None
    /\ s_call.fn = "load_sessions_parallel"
    /\ s_result = None
    /\ i \in DOMAIN s_tasks
    /\ ~ s_tasks[i].done
    /\ LET outcome == process_session_file(s_tasks[i].entry)
           finished == Cardinality({j \in DOMAIN s_tasks : s_tasks[j].done})
           tasks == [s_tasks EXCEPT ![i] = [@ EXCEPT !.done = TRUE,
                                                     !.rank = finished + 1,
                                                     !.outcome = outcome]]
       IN  /\ s_tasks' = tasks
           /\ s_gather' =
                IF s_gather # None THEN s_gather
                ELSE IF outcome.kind = "raise"
                THEN [kind |-> "raise", exc |-> outcome.exc]
                ELSE IF \A j \in DOMAIN tasks : tasks[j].done
                THEN [kind |-> "results"]
                ELSE None
    /\ UNCHANGED <<s_dir, s_call, s_result>>
    /\ UNCHANGED <<a_vars, m_vars, r_vars, p_vars, i_vars, k_vars,
                 c_vars, b_vars, w_vars>>

\* load_sessions_parallel resumes after the await: it raises what gather raised,
\* or filters the results and assembles them.
ParallelResume ==
    /\ s_call # None
    /\ s_call.fn = "load_sessions_parallel"
    /\ s_result = None
    /\ s_gather # None
    /\ s_result' = IF s_gather.kind = "raise"
                   THEN [kind |-> "raise", exc |-> s_gather.exc]
                   ELSE _assemble_session_parts(TruthyResults(s_tasks), s_call.max_chars)
    /\ UNCHANGED <<s_dir, s_call, s_tasks, s_gather>>
    /\ UNCHANGED <<a_vars, m_vars, r_vars, p_vars, i_vars, k_vars,
                 c_vars, b_vars, w_vars>>

SessionsNext ==
    \/ CallCollectSessionFiles
    \/ CallLoadSessions
    \/ ParallelStart
    \/ \E i \in 1..Len(SessionStems) : TaskRuns(i)
    \/ ParallelResume

(***************************************************************************)
(* Discovery of one transcript whose index entry carries any combination   *)
(* of values in its four time fields.                                      *)
(***************************************************************************)

\* values of a time field of the index: missing, 0, an epoch number, an integer
\* beyond the float range, a numeric string, an ISO-8601 string, a string that is
\* neither, and the empty string
MetaValues ==
    {JNull, JNum(0), JNum(3), JBigInt, JStr("numeric", 2), JStr("iso", 3),
     JStr("junk", 0), JStr("empty", 0)}

MetaChoices ==
    [updatedAt : MetaValues, lastMessageAt : MetaValues, timestamp : MetaValues,
     createdAt : MetaValues]

ResolveInit ==
    /\ s_dir \in {[exists |-> TRUE,
                   files |-> <<[stem |-> "s1", stem_len |-> 2, fmt |-> "jsonl",
                                mtime |-> 1, meta |-> m, content |-> LongContent,
                                fault |-> "none"]>>,
                   transcripts |-> <<>>] : m \in MetaChoices}
    /\ s_call = None
    /\ s_result = None
    /\ s_tasks = <<>>
    /\ s_gather = None

(***************************************************************************)
(* Calls of parse_jsonl_session_content on a transcript.                   *)
(***************************************************************************)

\* Bound of the transcript.
MaxLines == 3

TextA == <<"a">>

TextPadded == <<" ", "b", " ">>

TextTwoWords == <<"c", " ", "d">>

TextSpaces == <<" ">>

LineChoices ==
    { [kind |-> "blank"],
      [kind |-> "invalid"],
      [kind |-> "scalar"],
      Entry("message", Absent, Absent, Message("user", Blocks(<<TextBlock(Str(TextA))>>))),
      Entry("", Absent, Absent,
            Message("assistant",
                    Blocks(<<TextBlock(Str(TextPadded)), OtherBlock,
                             TextBlock(Str(TextTwoWords))>>))),
      Entry("", Absent, Absent,
            Message("user", Blocks(<<OtherBlock, TextBlock(Str(TextSpaces)),
                                     TextBlock(Absent)>>))),
      Entry("", Absent, Absent, Message("toolResult", Blocks(<<TextBlock(Str(TextA))>>))),
      Entry("", Absent, Absent, Message("assistant", Str(TextTwoWords))),
      Entry("", Absent, Absent, Message("user", Str(<<>>))),
      Entry("compaction", Str(TextPadded), Absent, Message("user", Str(TextA))),
      Entry("Branch_Summary ", Absent, Dict(Str(TextSpaces), Str(TextA), Absent, Absent),
            Absent),
      Entry("compaction", Str(TextSpaces), Absent, Absent),
      Entry("", Absent, Absent, Absent),
      Entry("", Absent, Absent, Null),
      Entry("", Absent, Absent, Message("user", Null)),
      Entry("", Absent, Absent, Message("user", Blocks(<<TextBlock(Null)>>))) }

ParseInit ==
    /\ p_raw \in SeqUpTo(LineChoices, MaxLines)
    /\ p_result = None

ParseIdle ==
    /\ p_raw = <<>>
    /\ p_result = None

\* A call of parse_jsonl_session_content(raw_content).
CallParse ==
    /\ p_result = None
    /\ p_result' = parse_jsonl_session_content(p_raw)
    /\ UNCHANGED p_raw
    /\ UNCHANGED <<a_vars, m_vars, r_vars, s_vars, i_vars, k_vars,
                 c_vars, b_vars, w_vars>>

(***************************************************************************)
(* Calls of _load_sessions_index_map on a sidecar file that stores the     *)
(* same entries in one of several shapes.                                  *)
(***************************************************************************)

\* Bound of the index.
MaxEntries == 2

\* entries without their position, and an item that is not an object
EntryChoices ==
    {[kind |-> "entry", id |-> id, sessionId |-> sid, uuid |-> uuid] :
        id \in {"", " ", "a", "b"}, sid \in {"", "a", "b"}, uuid \in {"", "u"}}
    \cup {JScalar}

Positioned(choices) ==
    [i \in DOMAIN choices |->
        IF choices[i].kind = "entry"
        THEN IndexEntry(i, choices[i].id, choices[i].sessionId, choices[i].uuid)
        ELSE choices[i]]

SidecarFaults == {"missing", "unreadable", "not_json", "too_deep", "huge_int", "scalar"}

SidecarChoices ==
    {[state |-> f, entries |-> <<>>] : f \in SidecarFaults}
    \cup {[state |-> "entries", entries |-> Positioned(choices)] :
            choices \in SeqUpTo(EntryChoices, MaxEntries)}

\* the shapes in which the entries are stored: a list under "sessions" or under
\* "items", a bare list, a map of arbitrary keys, and a map under "sessions"
Shapes == {"sessions", "items", "bare", "map", "nested"}

\* the arbitrary keys of a map-shaped index
SessionKey(i) == <<"agent:main:1", "agent:main:2", "agent:main:3", "agent:main:4">>[i]

MapOf(entries) == JDict([i \in DOMAIN entries |->
                            [key |-> SessionKey(i), value |-> entries[i]]])

\* what json.loads returns for the file holding the entries in the given shape
PayloadOf(shape, entries) ==
    CASE shape = "sessions" -> JDict(<<[key |-> "sessions", value |-> JList(entries)]>>)
      [] shape = "items" -> JDict(<<[key |-> "items", value |-> JList(entries)]>>)
      [] shape = "bare" -> JList(entries)
      [] shape = "map" -> MapOf(entries)
      [] OTHER -> JDict(<<[key |-> "sessions", value |-> MapOf(entries)]>>)

StoredAs(shape, sidecar) ==
    IF sidecar.state = "entries"
    THEN [state |-> "json", payload |-> PayloadOf(shape, sidecar.entries)]
    ELSE IF sidecar.state = "scalar"
    THEN [state |-> "json", payload |-> JScalar]
    ELSE [state |-> sidecar.state]

IndexInit ==
    /\ i_sidecar \in SidecarChoices
    /\ i_results = [shape \in Shapes |-> None]

IndexIdle ==
    /\ i_sidecar = None
    /\ i_results = <<>>

\* A call of _load_sessions_index_map on the directory whose sidecar stores the
\* entries in the given shape.
CallLoadIndexMap(shape) ==
    /\ i_sidecar # None
    /\ i_results[shape] = None
    /\ i_results' = [i_results EXCEPT
                        ![shape] = _load_sessions_index_map(StoredAs(shape, i_sidecar))]
    /\ UNCHANGED i_sidecar
    /\ UNCHANGED <<a_vars, m_vars, r_vars, s_vars, p_vars, k_vars,
                 c_vars, b_vars, w_vars>>

IndexNext == \E shape \in Shapes : CallLoadIndexMap(shape)

(***************************************************************************)
(* Calls of _resolve_model_pricing.                                        *)
(***************************************************************************)

\* Bound of the model name, in pieces.
MaxNamePieces == 4

NamePieces == {"kimi-k2", ".5", "-turbo", "-preview", "-thinking", "x"}

PricingInit ==
    /\ k_model_name \in SeqUpTo(NamePieces, MaxNamePieces)
    /\ k_result = None

PricingIdle ==
    /\ k_model_name = <<>>
    /\ k_result = None

\* A call of _resolve_model_pricing(model_name).
CallResolvePricing ==
    /\ k_result = None
    /\ k_result' = [kind |-> "returned", value |-> _resolve_model_pricing(k_model_name)]
    /\ UNCHANGED k_model_name
    /\ UNCHANGED <<a_vars, m_vars, r_vars, s_vars, p_vars, i_vars,
                 c_vars, b_vars, w_vars>>

(***************************************************************************)
(* estimate_usage_cost.  Amounts are integers: a price is in cents per     *)
(* million tokens (as in MODEL_PRICING_USD_PER_1M above), a cost is in     *)
(* 1e-8 USD, and a cost rounded to 6 decimals is in 1e-6 USD.              *)
(***************************************************************************)

\* a token field that is missing from stats, or None
NoCount == -1

\* stats.get(a) or stats.get(b) or stats.get(c) or 0
RECURSIVE FirstCount(_)
FirstCount(fields) ==
    IF fields = <<>> THEN 0
    ELSE IF Head(fields) # NoCount /\ Head(fields) # 0 THEN Head(fields)
    ELSE FirstCount(Tail(fields))

\* mutant: the output tokens are charged at the prompt price
ModelCost_PromptPriceOnly(input_tokens, output_tokens, pricing) ==
    input_tokens * pricing.prompt + output_tokens * pricing.prompt

\* (input_tokens / 1e6) * pricing["prompt"] + (output_tokens / 1e6) * pricing["completion"]
ModelCost(input_tokens, output_tokens, pricing) ==
    input_tokens * pricing.prompt + output_tokens * pricing.completion

\* round(cost, 6) of a non-negative cost.  No cost that lies halfway between two
\* 6-decimal values is a binary float: round() goes to the neighbour the float
\* is nearer to (10 tokens at 1.15 give 0.000012, 50 tokens give 0.000057), which
\* tie_up stands for.
Round6(cost, tie_up) ==
    LET quotient == cost \div 100
        rest == cost % 100
    IN  IF rest < 50 THEN quotient
        ELSE IF rest > 50 THEN quotient + 1
        ELSE IF tie_up THEN quotient + 1 ELSE quotient

UnknownModelEntry(input_tokens, output_tokens) ==
    [input_tokens |-> input_tokens, output_tokens |-> output_tokens,
     estimated_usd |-> 0, pricing_source |-> "unknown_model"]

PricedModelEntry(input_tokens, output_tokens, pricing, estimated_usd) ==
    [input_tokens |-> input_tokens, output_tokens |-> output_tokens,
     usd_per_1m_prompt |-> pricing.prompt,
     usd_per_1m_completion |-> pricing.completion,
     estimated_usd |-> estimated_usd,
     pricing_source |-> "moonshot_docs_forum_feb_2026"]

\* The for loop over model_usage.items() from item i on, with the loop's locals
\* per_model (in insertion order) and total_usd.
RECURSIVE CostLoop(_, _, _, _, _)
CostLoop(items, i, per_model, total_usd, tie_up) ==
    IF i > Len(items) THEN [per_model |-> per_model, total_usd |-> total_usd]
    ELSE IF items[i].stats.kind # "dict"
         THEN CostLoop(items, i + 1, per_model, total_usd, tie_up)
    ELSE LET input_tokens == FirstCount(items[i].stats.input)
             output_tokens == FirstCount(items[i].stats.output)
             pricing == _resolve_model_pricing(items[i].model_name)
         IN  IF pricing = None
             THEN CostLoop(items, i + 1,
                           Append(per_model,
                                  [model_name |-> items[i].model_name,
                                   entry |-> UnknownModelEntry(input_tokens,
                                                               output_tokens)]),
                           total_usd, tie_up)
             ELSE LET model_cost == ModelCost(input_tokens, output_tokens,
                                              pricing.prices)
                  IN  CostLoop(items, i + 1,
                               Append(per_model,
                                      [model_name |-> items[i].model_name,
                                       entry |-> PricedModelEntry(
                                                    input_tokens, output_tokens,
                                                    pricing.prices,
                                                    Round6(model_cost, tie_up[i]))]),
                               total_usd + model_cost, tie_up)

EmptyDict == [kind |-> "dict", empty |-> TRUE]

\* usage_summary is None, {} or a dict; its "model_usage_summaries" is missing,
\* a dict given by its items, or a value of another type.
estimate_usage_cost(usage_summary, tie_up) ==
    IF usage_summary.kind = "None" \/ usage_summary.empty THEN EmptyDict
    ELSE IF usage_summary.model_usage_summaries.kind = "missing" THEN EmptyDict
    ELSE IF usage_summary.model_usage_summaries.kind # "dict" THEN EmptyDict
    ELSE LET items == usage_summary.model_usage_summaries.items
             loop == CostLoop(items, 1, <<>>, 0, tie_up)
         IN  IF loop.per_model = <<>> THEN EmptyDict
             ELSE [kind |-> "dict", empty |-> FALSE,
                   total_estimated_usd |-> Round6(loop.total_usd, tie_up[Len(items) + 1]),
                   estimated_input_pricing_mode |-> "cache_miss",
                   by_model |-> loop.per_model]

\* Bounds of the usage summaries.
MaxModels == 2

UsageModelNames ==
    { <<"kimi-k2", ".5">>, <<"kimi-k2", "-turbo">>,
      <<"kimi-k2", "-turbo", "-preview", "x">>, <<"x">> }

TokenFieldChoices ==
    { <<2000, NoCount, NoCount>>, <<0, 10, NoCount>>, <<NoCount, NoCount, 50>>,
      <<NoCount, 0, NoCount>> }

OutputFieldChoices ==
    { <<1000, NoCount, NoCount>>, <<NoCount, NoCount, 30>>, <<NoCount, NoCount, NoCount>> }

StatsChoices ==
    [kind : {"dict"}, input : TokenFieldChoices, output : OutputFieldChoices]
        \cup {[kind |-> "list"]}

\* the items of a dict: no key twice
UsageItems ==
    {items \in SeqUpTo([model_name : UsageModelNames, stats : StatsChoices], MaxModels) :
        \A i, j \in DOMAIN items : i # j => items[i].model_name # items[j].model_name}

UsageChoices ==
    {None, EmptyDict,
     [kind |-> "dict", empty |-> FALSE, model_usage_summaries |-> [kind |-> "missing"]],
     [kind |-> "dict", empty |-> FALSE, model_usage_summaries |-> [kind |-> "list"]]}
        \cup {[kind |-> "dict", empty |-> FALSE,
               model_usage_summaries |-> [kind |-> "dict", items |-> items]] :
                  items \in UsageItems}

CostInit ==
    /\ c_usage \in UsageChoices
    /\ c_result = None

CostIdle ==
    /\ c_usage = None
    /\ c_result = None

\* A call of estimate_usage_cost(usage_summary).
CallEstimateUsageCost ==
    /\ c_result = None
    /\ \E tie_up \in [1..(MaxModels + 1) -> BOOLEAN] :
         c_result' = estimate_usage_cost(c_usage, tie_up)
    /\ UNCHANGED c_usage
    /\ UNCHANGED <<a_vars, m_vars, r_vars, s_vars, p_vars, i_vars, k_vars,
                 b_vars, w_vars>>

(***************************************************************************)
(* build_context_payload and the context build of main_async.  A text is a *)
(* sequence of pieces, each a string s that stands for len characters.     *)
(***************************************************************************)

\* "\n\n", which joins the session parts and the chunks
Sep == [s |-> "\n\n", len |-> 2]

\* "=== SESSION:", the start of the header of every session part
SessionMark == [s |-> "=== SESSION:", len |-> 12]

\* '=' * 60
Rule == [s |-> "============================================================", len |-> 60]

WorkspaceMark == [s |-> "=== WORKSPACE ===\n", len |-> 18]

TruncationMarker == [s |-> "\n[...truncated due to memory limit]", len |-> TruncationMarkerLen]

\* a run of len characters of the named text; " " names white space
Chars(name, len) == [s |-> name, len |-> len]

NoSessionsAvailableText == <<Chars(NoSessionsAvailable, 23)>>

NoSessionsLoadedText == <<Chars(NoSessionsLoaded, 20)>>

IsWhite(piece) == piece.s \in {"\n\n", " "}

RECURSIVE LStripText(_)
LStripText(text) ==
    IF text # <<>> /\ IsWhite(Head(text)) THEN LStripText(Tail(text)) ELSE text

RECURSIVE RStripText(_)
RStripText(text) ==
    IF text # <<>> /\ IsWhite(text[Len(text)])
    THEN RStripText(SubSeq(text, 1, Len(text) - 1))
    ELSE text

\* text.strip()
StripText(text) == RStripText(LStripText(text))

\* "\n\n".join(texts)
RECURSIVE JoinTexts(_)
JoinTexts(texts) ==
    IF texts = <<>> THEN <<>>
    ELSE IF Len(texts) = 1 THEN texts[1]
    ELSE texts[1] \o <<Sep>> \o JoinTexts(Tail(texts))

\* text[:n]: the pieces that end within n characters, and the start of the next
\* one; a separator or a mark that is cut through is no longer one
RECURSIVE CutText(_, _)
CutText(text, n) ==
    IF text = <<>> \/ n <= 0 THEN <<>>
    ELSE IF Head(text).len <= n
         THEN <<Head(text)>> \o CutText(Tail(text), n - Head(text).len)
    ELSE <<Chars(IF Head(text) \in {Sep, SessionMark} THEN "cut" ELSE Head(text).s, n)>>

\* text.split("\n\n=== SESSION:") from piece i on, with the block being read
RECURSIVE SplitLoop(_, _, _, _)
SplitLoop(text, i, block, blocks) ==
    IF i > Len(text) THEN Append(blocks, block)
    ELSE IF i < Len(text) /\ text[i] = Sep /\ text[i + 1] = SessionMark
         THEN SplitLoop(text, i + 2, <<>>, Append(blocks, block))
    ELSE SplitLoop(text, i + 1, Append(block, text[i]), blocks)

\* The for loop over the blocks from block i on, with the list chunks.
RECURSIVE ChunkLoop(_, _, _)
ChunkLoop(blocks, i, chunks) ==
    IF i > Len(blocks) THEN chunks
    ELSE LET block == StripText(blocks[i])
         IN  IF block = <<>> THEN ChunkLoop(blocks, i + 1, chunks)
             ELSE IF Head(block) = SessionMark
                  THEN ChunkLoop(blocks, i + 1, Append(chunks, block))
             ELSE ChunkLoop(blocks, i + 1, Append(chunks, <<SessionMark>> \o block))

\* at this many characters of full context the auto format becomes chunks
AutoChunkThreshold == 120000

\* mutant: the auto format becomes chunks only above the threshold
ResolveContextFormat_AboveOnly(context_format, pi_profile_name, context_chars) ==
    IF context_format = "auto"
    THEN IF pi_profile_name # "off" \/ context_chars > AutoChunkThreshold
         THEN "chunks" ELSE "string"
    ELSE context_format

\* context_format after the `if context_format == "auto"` block
ResolveContextFormat(context_format, pi_profile_name, context_chars) ==
    IF context_format = "auto"
    THEN IF pi_profile_name # "off" \/ context_chars >= AutoChunkThreshold
         THEN "chunks" ELSE "string"
    ELSE context_format

\* The returned pair (payload, format); the payload is a text or a list of texts.
build_context_payload(workspace_content, sessions_content, context_format, pi_profile_name) ==
    LET full_context == workspace_content \o <<Sep, Rule, Sep>> \o sessions_content
        sessions_available ==
            StripText(sessions_content)
                \notin {<<>>, NoSessionsAvailableText, NoSessionsLoadedText}
        resolved == ResolveContextFormat(context_format, pi_profile_name,
                                         SumLen(full_context))
        workspace_chunks ==
            IF StripText(workspace_content) # <<>>
            THEN << <<WorkspaceMark>> \o workspace_content >>
            ELSE <<>>
        chunks ==
            IF sessions_available
            THEN ChunkLoop(SplitLoop(sessions_content, 1, <<>>, <<>>), 1, workspace_chunks)
            ELSE workspace_chunks
    IN  IF resolved = "chunks"
        THEN [payload |-> [kind |-> "list",
                           items |-> IF chunks # <<>> THEN chunks ELSE <<full_context>>],
              format |-> resolved]
        ELSE [payload |-> [kind |-> "str", text |-> full_context], format |-> "string"]

\* The text of an emitted part: the part, or its first `kept` characters and the
\* truncation marker.
EmittedText(session_parts, emitted) ==
    IF emitted.truncated
    THEN CutText(session_parts[emitted.id], emitted.kept) \o <<TruncationMarker>>
    ELSE session_parts[emitted.id]

\* What load_sessions_parallel returns to main_async: the sentinel when no file
\* is found, else the texts the tasks returned, assembled within max_chars.
SessionsContent(files_found, session_parts, max_chars) ==
    IF ~ files_found THEN NoSessionsAvailableText
    ELSE LET assembled ==
                 _assemble_session_parts(
                     [i \in DOMAIN session_parts |->
                         [id |-> i, len |-> SumLen(session_parts[i])]],
                     max_chars)
         IN  IF assembled.kind = "sentinel" THEN NoSessionsLoadedText
             ELSE JoinTexts([i \in DOMAIN assembled.parts |->
                               EmittedText(session_parts, assembled.parts[i])])

\* The locals of main_async once the context is built.
BuiltContext(args) ==
    LET sessions_content ==
            SessionsContent(args.files_found, args.session_parts, args.max_context_chars)
        built == build_context_payload(args.workspace_content, sessions_content,
                                       args.context_format, args.pi_profile)
        full_context == IF built.payload.kind = "list"
                        THEN JoinTexts(built.payload.items)
                        ELSE built.payload.text
    IN  [sessions_content |-> sessions_content,
         context_payload |-> built.payload,
         resolved_context_format |-> built.format,
         context_chunk_count |-> IF built.payload.kind = "list"
                                 THEN Len(built.payload.items) ELSE 1,
         context_chars |-> SumLen(full_context)]

\* Bounds of the context build.
MaxSessionParts == 2

WorkspaceTexts ==
    { <<>>, <<Chars(" ", 3)>>, <<Chars("workspace", 500)>>,
      <<Chars("workspace", 119912)>>, <<Chars("workspace", 119913)>> }

\* the text process_session_file returns for a session: of 600 characters, of
\* 1500, and of 612 with "\n\n=== SESSION:" in what the user wrote
SessionTextChoices(id) ==
    { <<SessionMark, Chars(id, 588)>>,
      <<SessionMark, Chars(id, 1488)>>,
      <<SessionMark, Chars(id, 300), Sep, SessionMark, Chars("quoted", 286)>> }

SessionIds == <<"s1", "s2", "s3">>

SessionPartsChoices ==
    UNION {{parts \in [1..n -> UNION {SessionTextChoices(SessionIds[i]) : i \in 1..n}] :
               \A i \in 1..n : parts[i] \in SessionTextChoices(SessionIds[i])} :
           n \in 0..MaxSessionParts}

BuildArgsChoices ==
    {args \in [workspace_content : WorkspaceTexts,
               files_found : BOOLEAN,
               session_parts : SessionPartsChoices,
               max_context_chars : {1200, 2500, 200000},
               context_format : {"auto", "string", "chunks"},
               pi_profile : {"off", "pi4"}] :
        ~ args.files_found => args.session_parts = <<>>}

PayloadInit ==
    /\ b_args \in BuildArgsChoices
    /\ b_result = None

PayloadIdle ==
    /\ b_args = None
    /\ b_result = None

\* main_async from the load of the sessions to context_chars.
BuildContext ==
    /\ b_result = None
    /\ b_result' = BuiltContext(b_args)
    /\ UNCHANGED b_args
    /\ UNCHANGED <<a_vars, m_vars, r_vars, s_vars, p_vars, i_vars, k_vars,
                 c_vars, w_vars>>

(***************************************************************************)
(* load_workspace_sync.  A file of the workspace is missing, unreadable,   *)
(* or has a content of len characters that is blank (white space only)     *)
(* or not.                                                                 *)
(***************************************************************************)

Missing == [state |-> "missing"]

Unreadable == [state |-> "unreadable"]

Content(len, blank) == [state |-> "file", len |-> len, blank |-> blank]

workspace_file_aliases ==
    << [display_name |-> "MEMORY.md", aliases |-> <<"MEMORY.md", "memory.md">>],
       [display_name |-> "SOUL.md", aliases |-> <<"SOUL.md">>],
       [display_name |-> "AGENTS.md", aliases |-> <<"AGENTS.md">>],
       [display_name |-> "USER.md", aliases |-> <<"USER.md">>],
       [display_name |-> "IDENTITY.md", aliases |-> <<"IDENTITY.md">>],
       [display_name |-> "TOOLS.md", aliases |-> <<"TOOLS.md">>] >>

\* a named file is taken only when it is shorter than this
NamedFileLimit == 50000

\* a dated note shorter than this is passed over
MinDailyChars == 20

\* daily_files[:30]
MaxDailyFiles == 30

\* the first alias that exists in the workspace, or Missing
RECURSIVE FirstExisting(_, _)
FirstExisting(files, aliases) ==
    IF aliases = <<>> THEN Missing
    ELSE IF files[Head(aliases)] # Missing THEN files[Head(aliases)]
    ELSE FirstExisting(files, Tail(aliases))

\* The for loop over workspace_file_aliases from entry i on, with the list parts.
RECURSIVE NamedLoop(_, _, _)
NamedLoop(files, i, parts) ==
    IF i > Len(workspace_file_aliases) THEN parts
    ELSE LET display_name == workspace_file_aliases[i].display_name
             file == FirstExisting(files, workspace_file_aliases[i].aliases)
         IN  IF file = Missing THEN NamedLoop(files, i + 1, parts)
             ELSE IF file = Unreadable
                  THEN NamedLoop(files, i + 1,
                                 Append(parts, [kind |-> "error", name |-> display_name]))
             ELSE IF ~ file.blank /\ file.len < NamedFileLimit
                  THEN NamedLoop(files, i + 1,
                                 Append(parts, [kind |-> "named", name |-> display_name,
                                                content_len |-> file.len]))
             ELSE NamedLoop(files, i + 1, parts)

\* sorted(memory_dir.glob("*.md"), key=lambda p: p.stem, reverse=True): the
\* notes are given by their stems, which are dates
RECURSIVE SortedByStemDesc(_)
SortedByStemDesc(stems) ==
    IF stems = {} THEN <<>>
    ELSE LET latest == CHOOSE d \in stems : \A e \in stems : e <= d
         IN  <<latest>> \o SortedByStemDesc(stems \ {latest})

\* mutant: a note is taken whatever the budget
RECURSIVE DailyLoop_NoBudget(_, _, _, _, _, _)
DailyLoop_NoBudget(notes, daily_files, i, daily_chars, parts, daily_chars_limit) ==
    IF i > Len(daily_files) THEN parts
    ELSE LET file == notes[daily_files[i]]
         IN  IF file = Unreadable
             THEN DailyLoop_NoBudget(notes, daily_files, i + 1, daily_chars, parts,
                                     daily_chars_limit)
             ELSE IF file.blank \/ file.len < MinDailyChars
                  THEN DailyLoop_NoBudget(notes, daily_files, i + 1, daily_chars, parts,
                                          daily_chars_limit)
             ELSE DailyLoop_NoBudget(notes, daily_files, i + 1, daily_chars + file.len,
                                     Append(parts, [kind |-> "daily",
                                                    name |-> daily_files[i],
                                                    content_len |-> file.len]),
                                     daily_chars_limit)

\* The for loop over daily_files[:30] from file i on, with the locals
\* daily_chars and parts.
RECURSIVE DailyLoop(_, _, _, _, _, _)
DailyLoop(notes, daily_files, i, daily_chars, parts, daily_chars_limit) ==
    IF i > Len(daily_files) THEN parts
    ELSE LET file == notes[daily_files[i]]
         IN  IF file = Unreadable
             THEN DailyLoop(notes, daily_files, i + 1, daily_chars, parts,
                            daily_chars_limit)
             ELSE IF file.blank \/ file.len < MinDailyChars
                  THEN DailyLoop(notes, daily_files, i + 1, daily_chars, parts,
                                 daily_chars_limit)
             ELSE IF daily_chars + file.len > daily_chars_limit
                  THEN parts
             ELSE DailyLoop(notes, daily_files, i + 1, daily_chars + file.len,
                            Append(parts, [kind |-> "daily", name |-> daily_files[i],
                                           content_len |-> file.len]),
                            daily_chars_limit)

\* The parts of the returned text "\n\n".join(parts).  A workspace without a
\* memory directory is one without notes.
load_workspace_sync(workspace, daily_chars_limit) ==
    LET named == NamedLoop(workspace.files, 1, <<>>)
        stems == {d \in DOMAIN workspace.notes : workspace.notes[d] # Missing}
        daily_files == SubSeq(SortedByStemDesc(stems), 1,
                              Min(MaxDailyFiles, Cardinality(stems)))
    IN  [kind |-> "str",
         parts |-> DailyLoop(workspace.notes, daily_files, 1, 0, named,
                             daily_chars_limit)]

\* Bounds of the workspace.
MaxNotes == 3

NamedFileChoices ==
    {files \in [{"MEMORY.md", "memory.md", "SOUL.md", "AGENTS.md", "USER.md",
                 "IDENTITY.md", "TOOLS.md"} ->
                   {Missing, Unreadable, Content(49999, FALSE), Content(50000, FALSE),
                    Content(100, FALSE), Content(10, TRUE)}] :
        /\ files["MEMORY.md"] \in {Missing, Content(49999, FALSE), Content(50000, FALSE)}
        /\ files["memory.md"] \in {Missing, Content(100, FALSE)}
        /\ files["SOUL.md"] \in {Missing, Unreadable, Content(10, TRUE)}
        /\ \A name \in {"AGENTS.md", "USER.md", "IDENTITY.md", "TOOLS.md"} :
             files[name] = Missing}

NoteChoices ==
    {Missing, Unreadable, Content(0, TRUE), Content(19, FALSE), Content(20, FALSE),
     Content(30, TRUE), Content(60000, FALSE), Content(150000, FALSE)}

DailyLimits == {100000, 200000}

WorkspaceInit ==
    /\ w_workspace \in [files : NamedFileChoices, notes : [1..MaxNotes -> NoteChoices]]
    /\ w_call = None
    /\ w_result = None

WorkspaceIdle ==
    /\ w_workspace = None
    /\ w_call = None
    /\ w_result = None

\* A call of load_workspace_sync(workspace_dir, daily_chars_limit).
CallLoadWorkspace ==
    /\ w_call = None
    /\ \E daily_chars_limit \in DailyLimits :
         /\ w_call' = [daily_chars_limit |-> daily_chars_limit]
         /\ w_result' = load_workspace_sync(w_workspace, daily_chars_limit)
    /\ UNCHANGED w_workspace
    /\ UNCHANGED <<a_vars, m_vars, r_vars, s_vars, p_vars, i_vars, k_vars,
                 c_vars, b_vars>>

vars == <<a_vars, m_vars, r_vars, s_vars, p_vars, i_vars, k_vars, c_vars, b_vars, w_vars>>

\* The assembler alone, on every bounded input.
InitAssemble == AssembleInit /\ MainIdle /\ SessionsIdle /\ ParseIdle
    /\ IndexIdle /\ PricingIdle
    /\ CostIdle /\ PayloadIdle /\ WorkspaceIdle

SpecAssemble == InitAssemble /\ [][Assemble]_vars

\* One invocation of main_async, with every bounded sequence of backend outcomes.
Init == AssembleIdle /\ MainInit /\ SessionsIdle /\ ParseIdle
    /\ IndexIdle /\ PricingIdle
    /\ CostIdle /\ PayloadIdle /\ WorkspaceIdle

Next == MainNext

Spec == Init /\ [][Next]_vars

\* One direct call of run_rlm, with every bounded sequence of backend outcomes.
InitRun == AssembleIdle /\ MainIdle /\ SessionsIdle /\ ParseIdle
    /\ IndexIdle /\ PricingIdle
    /\ CostIdle /\ PayloadIdle /\ WorkspaceIdle

SpecRun == InitRun /\ [][RunNext]_vars

\* main_async runs on one thread and every step of it ends: rlm.completion is
\* synchronous and bounded by the request timeout, time.sleep by its argument.
SpecLive == Init /\ [][Next]_vars /\ WF_vars(Next)

\* One call of _collect_session_files or of a loader on every bounded directory.
InitSessions == AssembleIdle /\ MainIdle /\ SessionsInit /\ ParseIdle
    /\ IndexIdle /\ PricingIdle
    /\ CostIdle /\ PayloadIdle /\ WorkspaceIdle

SpecSessions == InitSessions /\ [][SessionsNext]_vars

\* One call of _collect_session_files on every bounded timestamp of the index.
InitResolve == AssembleIdle /\ MainIdle /\ ResolveInit /\ ParseIdle
    /\ IndexIdle /\ PricingIdle
    /\ CostIdle /\ PayloadIdle /\ WorkspaceIdle

SpecResolve == InitResolve /\ [][CallCollectSessionFiles]_vars

InitIndex == AssembleIdle /\ MainIdle /\ SessionsIdle /\ ParseIdle
    /\ IndexInit /\ PricingIdle
    /\ CostIdle /\ PayloadIdle /\ WorkspaceIdle

SpecIndex == InitIndex /\ [][IndexNext]_vars

InitPricing == AssembleIdle /\ MainIdle /\ SessionsIdle /\ ParseIdle
    /\ IndexIdle /\ PricingInit
    /\ CostIdle /\ PayloadIdle /\ WorkspaceIdle

SpecPricing == InitPricing /\ [][CallResolvePricing]_vars

\* One call of parse_jsonl_session_content on every bounded transcript.
InitParse == AssembleIdle /\ MainIdle /\ SessionsIdle /\ ParseInit
    /\ IndexIdle /\ PricingIdle
    /\ CostIdle /\ PayloadIdle /\ WorkspaceIdle

SpecParse == InitParse /\ [][CallParse]_vars

\* One call of estimate_usage_cost on every bounded usage summary.
InitCost == AssembleIdle /\ MainIdle /\ SessionsIdle /\ ParseIdle
    /\ IndexIdle /\ PricingIdle
    /\ CostInit /\ PayloadIdle /\ WorkspaceIdle

SpecCost == InitCost /\ [][CallEstimateUsageCost]_vars

\* One context build of main_async on every bounded workspace text and sessions.
InitPayload == AssembleIdle /\ MainIdle /\ SessionsIdle /\ ParseIdle
    /\ IndexIdle /\ PricingIdle
    /\ CostIdle /\ PayloadInit /\ WorkspaceIdle

SpecPayload == InitPayload /\ [][BuildContext]_vars

\* One call of load_workspace_sync on every bounded workspace.
InitWorkspace == AssembleIdle /\ MainIdle /\ SessionsIdle /\ ParseIdle
    /\ IndexIdle /\ PricingIdle
    /\ CostIdle /\ PayloadIdle /\ WorkspaceInit

SpecWorkspace == InitWorkspace /\ [][CallLoadWorkspace]_vars

(***************************************************************************)
(* Vocabulary of the claims about run_rlm and main_async.                  *)
(***************************************************************************)

PhaseCalls(ph) == SelectSeq(calls, LAMBDA c : c.phase = ph)

HasRun(ph) == \E n \in DOMAIN runs : runs[n].phase = ph

RunArgs(ph) == runs[CHOOSE n \in DOMAIN runs : runs[n].phase = ph]

Last(s) == s[Len(s)]

\* the call is the last one its run_rlm invocation made so far
LastOfItsRun(i) == \A j \in DOMAIN calls : j > i => calls[j].phase # calls[i].phase

\* the markers as the specification lists them
ListedRateLimitMarkers == {"429", "rate limit", "quota"}

ListedTransientMarkers ==
    {"timeout", "connection reset", "temporarily unavailable", "502", "503", "504"}

\* every marker run_rlm treats as transient
AllTransientMarkers == ListedTransientMarkers \cup {"timed out", "temporary"}

CarriesAny(error, markers) == \E m \in markers : Contains(Lower(error), m)

Failed(c) == ~ c.outcome.ok

\* the run_rlm invocation of phase ph has returned or raised
RunEnded(ph) ==
    /\ PhaseCalls(ph) # <<>>
    /\ Last(PhaseCalls(ph)).ends # "continue"
    /\ ~ (r_call # None /\ r_call.phase = ph /\ r_pc \in {"loop", "completion"})

\* On success the attempts reported count the calls made, and the sleeps before
\* them were backoff*1, backoff*2, ... in that order.
OkAfterLinearBackoff ==
    \A ph \in {"primary", "fallback"} :
        (HasRun(ph) /\ RunEnded(ph) /\ Last(PhaseCalls(ph)).outcome.ok) =>
            LET cs == PhaseCalls(ph)
                k == Len(cs) - 1
            IN  /\ Last(cs).returned[1].status = "ok"
                /\ Last(cs).returned[1].attempts = k + 1
                /\ k <= RunArgs(ph).max_retries
                /\ \A j \in 1..k :
                     /\ Failed(cs[j])
                     /\ cs[j].attempt = j
                     /\ cs[j].slept = <<RunArgs(ph).retry_backoff_seconds * j>>

\* a failed call is retried iff its attempt number is within max_retries, and the
\* sleep before the next attempt is retry_backoff_seconds * attempt
RetriedIffWithinBound(c) ==
    LET run == RunArgs(c.phase)
    IN  /\ (c.ends = "continue") <=> (c.attempt <= run.max_retries)
        /\ (c.ends = "continue") => c.slept = <<run.retry_backoff_seconds * c.attempt>>
        /\ (c.ends # "continue") => c.slept = <<>>

(***************************************************************************)
(* C2 (as stated): a failure whose lower-cased message contains one of the *)
(* listed transient markers on attempt k is retried iff k <= max_retries,  *)
(* with a sleep of retry_backoff_seconds * k; k transient failures and a   *)
(* success give status ok, attempts k+1 and sleeps backoff*1..backoff*k.   *)
(***************************************************************************)
C2_TransientRetriedIffWithinBound ==
    /\ \A i \in DOMAIN calls :
         (Failed(calls[i]) /\ CarriesAny(calls[i].outcome.error, ListedTransientMarkers))
            => RetriedIffWithinBound(calls[i])
    /\ OkAfterLinearBackoff

(***************************************************************************)
(* C2 (amended): the same for a failure whose message contains a listed    *)
(* transient marker and no rate-limit marker.                              *)
(***************************************************************************)
C2_TransientNotRateLimitedRetried ==
    /\ \A i \in DOMAIN calls :
         (/\ Failed(calls[i])
          /\ CarriesAny(calls[i].outcome.error, ListedTransientMarkers)
          /\ ~ CarriesAny(calls[i].outcome.error, ListedRateLimitMarkers))
            => RetriedIffWithinBound(calls[i])
    /\ OkAfterLinearBackoff

\* two transient failures, each followed by its sleep, then a success
C2_Witness ==
    /\ r_pc = "returned"
    /\ r_result.status = "ok"
    /\ r_result.attempts = 3
    /\ r_call.retry_backoff_seconds > 0
    /\ \A j \in 1..2 :
         CarriesAny(PhaseCalls(r_call.phase)[j].outcome.error, ListedTransientMarkers)

(***************************************************************************)
(* C3: a failure whose message contains a rate-limit marker (429, rate     *)
(* limit, quota; case-insensitively) makes run_rlm return at once: status  *)
(* rate_limited, the friendly message as response, the attempt count of    *)
(* the failed call (1 on the first call), no sleep and no further attempt. *)
(***************************************************************************)
C3_RateLimitedReturnsAtOnce ==
    \A i \in DOMAIN calls :
        LET c == calls[i]
        IN  (Failed(c) /\ CarriesAny(c.outcome.error, ListedRateLimitMarkers)) =>
                /\ c.ends = "return"
                /\ c.slept = <<>>
                /\ c.returned = <<[response |-> RateLimitResponse,
                                   attempts |-> c.attempt,
                                   status |-> "rate_limited"]>>
                /\ c.attempt = Len(PhaseCalls(c.phase))
                /\ LastOfItsRun(i)
                /\ i = Len(calls) => (r_pc \in {"returned", "idle"}
                                       /\ r_result = c.returned[1])

\* a rate-limited first call whose message needs the lower-casing
C3_Witness ==
    /\ r_pc = "returned"
    /\ Len(calls) = 1
    /\ calls[1].outcome.error = <<"Quota", "exceeded">>
    /\ r_result.status = "rate_limited"
    /\ r_result.attempts = 1

(***************************************************************************)
(* C4: a failure whose message carries neither a rate-limit marker nor a   *)
(* transient marker is re-raised unchanged on the attempt where it occurs, *)
(* whatever max_retries is, with no sleep and no further attempt.          *)
(***************************************************************************)
C4_OtherErrorsReraisedUnchanged ==
    \A i \in DOMAIN calls :
        LET c == calls[i]
        IN  (/\ Failed(c)
             /\ ~ CarriesAny(c.outcome.error, ListedRateLimitMarkers)
             /\ ~ CarriesAny(c.outcome.error, AllTransientMarkers)) =>
                /\ c.ends = "raise"
                /\ c.raised = <<c.outcome.error>>
                /\ c.slept = <<>>
                /\ LastOfItsRun(i)
                /\ (i = Len(calls) /\ m_pc = c.phase) => (r_pc = "raised"
                                                          /\ r_exc = c.outcome.error)

\* a fatal error on a retry attempt, with retries still allowed
C4_Witness ==
    /\ r_pc = "raised"
    /\ r_call.max_retries = 2
    /\ r_attempt = 2
    /\ r_exc = <<"Model", "unavailable">>

(***************************************************************************)
(* C5: when every call of a run_rlm invocation fails with a transient      *)
(* error, run_rlm makes exactly max_retries + 1 attempts and then raises   *)
(* the error of the last attempt; it returns no result.                    *)
(***************************************************************************)
IsTransientFailure(c) ==
    /\ Failed(c)
    /\ CarriesAny(c.outcome.error, AllTransientMarkers)
    /\ ~ CarriesAny(c.outcome.error, ListedRateLimitMarkers)

C5_ExhaustedRetriesRaiseLastError ==
    \A ph \in {"primary", "fallback"} :
        LET cs == PhaseCalls(ph)
        IN  (HasRun(ph) /\ \A j \in DOMAIN cs : IsTransientFailure(cs[j])) =>
                /\ Len(cs) <= RunArgs(ph).max_retries + 1
                /\ RunEnded(ph) =>
                     /\ Len(cs) = RunArgs(ph).max_retries + 1
                     /\ Last(cs).ends = "raise"
                     /\ Last(cs).raised = <<Last(cs).outcome.error>>
                     /\ Last(cs).returned = <<>>
                /\ (RunEnded(ph) /\ m_pc = ph) => (r_pc = "raised"
                                                  /\ r_exc = Last(cs).outcome.error
                                                  /\ r_result = None)

\* three transient failures with max_retries = 2, the last one differing from the first
C5_Witness ==
    /\ r_pc = "raised"
    /\ r_call.max_retries = 2
    /\ Len(PhaseCalls(r_call.phase)) = 3
    /\ \A j \in 1..3 : IsTransientFailure(PhaseCalls(r_call.phase)[j])
    /\ PhaseCalls(r_call.phase)[1].outcome.error # r_exc

(***************************************************************************)
(* C6: main_async runs a fallback run_rlm exactly when the primary run_rlm *)
(* raises, at most once, with the fallback model as root and sub model and *)
(* the context payload of the primary call; a primary call that returns    *)
(* (status ok or rate_limited) never triggers the fallback.                *)
(***************************************************************************)
PrimaryRaised == PhaseCalls("primary") # <<>> /\ Last(PhaseCalls("primary")).ends = "raise"

PrimaryReturned == PhaseCalls("primary") # <<>> /\ Last(PhaseCalls("primary")).ends = "return"

ConfiguredFallbackModel ==
    IF m_args.fallback_model # "" THEN m_args.fallback_model
    ELSE MODEL_PROFILES[m_args.profile_model].fallback

C6_FallbackExactlyWhenPrimaryRaises ==
    /\ Len(runs) <= 2
    /\ \A n \in DOMAIN runs : runs[n].phase = (IF n = 1 THEN "primary" ELSE "fallback")
    /\ HasRun("fallback") => PrimaryRaised
    /\ (PrimaryRaised /\ m_pc \in {"fallback", "emit", "done"}) => HasRun("fallback")
    /\ PrimaryReturned => ~ HasRun("fallback")
    /\ HasRun("fallback") =>
         /\ RunArgs("fallback").root_model = ConfiguredFallbackModel
         /\ RunArgs("fallback").sub_model = ConfiguredFallbackModel
         /\ RunArgs("fallback").context = RunArgs("primary").context
         /\ RunArgs("fallback").context = m_args.context_payload
    /\ \A i \in DOMAIN calls :
         calls[i].phase = "fallback" =>
            /\ calls[i].rlm.kwargs.model_name = ConfiguredFallbackModel
            /\ calls[i].prompt = m_args.context_payload

\* the fallback has run to its end after a primary failure, under a profile whose
\* sub model differs from its root model
C6_Witness ==
    /\ m_pc = "done"
    /\ HasRun("fallback")
    /\ m_args.profile_model = "speed"
    /\ m_args.context_payload.kind = "chunks"
    /\ m_output.status = "ok"

(***************************************************************************)
(* C7: if the primary run_rlm raises and the fallback run_rlm raises too,  *)
(* main_async emits a result with status error whose response embeds both  *)
(* failure messages.                                                       *)
(***************************************************************************)
FallbackRaised ==
    PhaseCalls("fallback") # <<>> /\ Last(PhaseCalls("fallback")).ends = "raise"

C7_BothFailuresReported ==
    (PrimaryRaised /\ FallbackRaised) =>
        LET primary_error == Last(PhaseCalls("primary")).outcome.error
            fallback_error == Last(PhaseCalls("fallback")).outcome.error
            expected == [response |-> <<"Error: Could not process. Primary: ",
                                        primary_error, ", Fallback: ", fallback_error>>,
                         status |-> "error"]
        IN  /\ m_pc \in {"fallback", "emit", "done"}
            /\ m_pc \in {"emit", "done"} => m_result = expected
            /\ m_pc = "done" => m_output = expected

\* both runs have raised, with different messages, and the result is printed
C7_Witness ==
    /\ m_pc = "done"
    /\ PrimaryRaised
    /\ FallbackRaised
    /\ Last(PhaseCalls("primary")).outcome.error
         # Last(PhaseCalls("fallback")).outcome.error
    /\ m_output.status = "error"

(***************************************************************************)
(* Vocabulary of the claims about session discovery and loading.           *)
(***************************************************************************)

Range(s) == {s[i] : i \in DOMAIN s}

CalledCollect == s_call # None /\ s_call.fn = "_collect_session_files"

CalledLoad == s_call # None /\ s_call.fn = "load_sessions"

\* the candidate files of the directory, each with its resolved timestamp
Candidates == IF s_dir.exists THEN SessionCandidates(s_dir) ELSE <<>>

DistinctTimestamps ==
    \A i, j \in DOMAIN Candidates : i # j => Candidates[i].ts # Candidates[j].ts

\* how many candidates are more recent than c
NewerThan(c) == Cardinality({j \in DOMAIN Candidates : Candidates[j].ts > c.ts})

\* with distinct timestamps: the r-th most recent candidate
ByRecency(r) == Candidates[CHOOSE i \in DOMAIN Candidates : NewerThan(Candidates[i]) = r - 1]

\* with distinct timestamps: the n most recent candidates, most recent first
MostRecent(n) == [r \in 1..Min(Len(Candidates), Max(n, 0)) |-> ByRecency(r)]

Stems(entries) == [i \in DOMAIN entries |-> entries[i].file.stem]

PartIds(parts) == [i \in DOMAIN parts |-> parts[i].id]

IsPrefix(s, t) == Len(s) <= Len(t) /\ \A i \in DOMAIN s : s[i] = t[i]

CalledParallel == s_call # None /\ s_call.fn = "load_sessions_parallel"

\* a load, sequential or parallel, has ended
LoadEnded == (CalledLoad \/ CalledParallel) /\ s_result.kind # "None"

LoadReturned == LoadEnded /\ s_result.kind \in {"joined", "sentinel"}

\* the files the load selected, most recent first
Selected == _collect_session_files(s_dir, s_call.max_sessions)

Included == Range(PartIds(s_result.parts))

Readable(e) == e.file.fault # "unreadable"

\* the selected sessions that can be read and have 50 characters or more
LongEnough == SelectSeq(Selected, LAMBDA e : Readable(e) /\ e.file.content.stripped >= 50)

AllFit(entries) ==
    SumLen([i \in DOMAIN entries |-> SessionPart(entries[i])]) <= s_call.max_chars

ProcessingFails(e) ==
    \/ ~ Readable(e)
    \/ e.file.fmt = "jsonl" /\ e.file.fault = "malformed"
    \/ e.file.content.stripped >= 50 /\ e.ts > MaxPlatformTime

\* the selected sessions whose processing does not fail and that are long enough
Processed == SelectSeq(LongEnough, LAMBDA e : ~ ProcessingFails(e))

(***************************************************************************)
(* C15: in load_sessions_parallel assembly starts only after the task of   *)
(* every selected file has completed, and a file whose read or processing  *)
(* fails yields None for that file alone: the load does not abort and the  *)
(* other files' results are kept and assembled.                            *)
(***************************************************************************)
C15_FailedFileYieldsNoneOnly ==
    (CalledParallel /\ s_result.kind # "None") =>
        /\ s_result.kind # "raise"
        /\ \A i \in DOMAIN s_tasks : s_tasks[i].done
        /\ \A i \in DOMAIN s_tasks :
             ProcessingFails(s_tasks[i].entry) => s_tasks[i].outcome = None
        /\ AllFit(Processed) => PartIds(s_result.parts) = Stems(Processed)

\* an index time read from a numeric string that is beyond the platform's range
OverflowsFromIndex(file) ==
    /\ file.fmt = "jsonl"
    /\ IndexedTs(file).kind = "float"
    /\ IndexedTs(file).v > MaxPlatformTime

\* the directory with the overflowing index times taken out of the index
WithoutOverflowingTimes ==
    [s_dir EXCEPT !.files =
        [i \in DOMAIN s_dir.files |->
            IF OverflowsFromIndex(s_dir.files[i])
            THEN [s_dir.files[i] EXCEPT !.meta = NoMeta] ELSE s_dir.files[i]]]

NoFaultyFile == \A i \in DOMAIN s_dir.files : s_dir.files[i].fault = "none"

(***************************************************************************)
(* C16: when the index gives a session a numeric-looking timestamp that    *)
(* overflows the time representation (updatedAt = "1e20"), loading does    *)
(* not raise, the session is still loaded (with the unknown-date sentinel  *)
(* in its header), and the overflowing value does not affect the order of  *)
(* the sessions.                                                           *)
(***************************************************************************)
C16_OverflowingIndexTimeTolerated ==
    (/\ s_call # None
     /\ s_result.kind # "None"
     /\ s_dir.exists
     /\ NoFaultyFile
     /\ \E i \in DOMAIN s_dir.files : OverflowsFromIndex(s_dir.files[i])) =>
        /\ s_result.kind # "raise"
        /\ CalledCollect =>
             Stems(s_result.value)
                = Stems(_collect_session_files(WithoutOverflowingTimes,
                                               s_call.max_sessions))
        /\ (LoadReturned /\ AllFit(LongEnough)) =>
             \A i \in DOMAIN LongEnough : LongEnough[i].file.stem \in Included

\* the index value can be read as a time: a number, or a numeric or ISO-8601
\* string
ParsableTime(value) ==
    \/ value.kind = "num"
    \/ value.kind = "str" /\ value.form \in {"numeric", "iso"}

\* the index-provided time of a file: the first field, in the order of preference,
\* that holds a parsable time
PreferredIndexTime(file) ==
    LET fields == <<file.meta.updatedAt, file.meta.lastMessageAt, file.meta.timestamp,
                    file.meta.createdAt>>
        parsable == SelectSeq(fields, ParsableTime)
    IN  IF parsable # <<>> THEN parsable[1].v ELSE file.mtime

(***************************************************************************)
(* C17: the resolved timestamp _collect_session_files uses for a file is   *)
(* the index-provided time (updatedAt, lastMessageAt, timestamp,           *)
(* createdAt, in that preference, as epoch number or ISO-8601) whenever    *)
(* the index provides a parsable one, and the modification time otherwise; *)
(* an unparsable index value never makes discovery raise.                  *)
(***************************************************************************)
C17_IndexTimePreferred ==
    (CalledCollect /\ s_dir.exists /\ s_call.max_sessions >= Len(s_dir.files)) =>
        /\ s_result.kind = "list"
        /\ \A i \in DOMAIN s_result.value :
             s_result.value[i].ts = PreferredIndexTime(s_result.value[i].file)

(***************************************************************************)
(* Vocabulary of the claims about parse_jsonl_session_content.             *)
(***************************************************************************)

IsSummaryRecord(line) == EntryType(line.type) \in {"compaction", "branch_summary"}

HasRole(line, roles) ==
    /\ ~ IsSummaryRecord(line)
    /\ line.message.kind = "dict"
    /\ line.message.role \in roles

\* a record of the expected shape: a summary record, or a message whose content
\* is a string or a list of blocks whose text, if any, is a string
ValidRecord(line) ==
    /\ line.kind = "object"
    /\ line.message.kind \in {"dict", "absent"}
    /\ (line.message.kind = "dict" /\ ~ IsSummaryRecord(line)) =>
         /\ line.message.content.kind \in {"str", "list"}
         /\ line.message.content.kind = "list" =>
              \A i \in DOMAIN line.message.content.blocks :
                 line.message.content.blocks[i].text.kind # "null"

\* the stripped, non-empty texts of the text blocks of a record, in order
BlockTexts(blocks) ==
    LET texts == [i \in DOMAIN blocks |->
                    IF blocks[i].type = "text" /\ blocks[i].text.kind = "str"
                    THEN Strip(blocks[i].text.text) ELSE <<>>]
    IN  SelectSeq(texts, LAMBDA t : t # <<>>)

\* the text of a user or assistant record
RecordText(line) ==
    IF line.message.content.kind = "str" THEN line.message.content.text
    ELSE Join(BlockTexts(line.message.content.blocks), <<" ">>)

\* the summary text of a compaction or branch_summary record
RecordSummary(line) ==
    LET texts == SelectSeq(<<_safe_text_from_value(line.summary),
                             _safe_text_from_value(line.content),
                             _safe_text_from_value(line.message)>>,
                           LAMBDA t : t # <<>>)
    IN  IF texts # <<>> THEN texts[1] ELSE <<>>

\* a user or assistant record yields text: an inline string, or a text block
\* that is not blank
YieldsText(line) ==
    \/ line.message.content.kind = "str"
    \/ BlockTexts(line.message.content.blocks) # <<>>

RECURSIVE Flatten(_)
Flatten(seqs) == IF seqs = <<>> THEN <<>> ELSE Head(seqs) \o Flatten(Tail(seqs))

ParsedValidTranscript ==
    /\ p_result # None
    /\ \A i \in DOMAIN p_raw : ValidRecord(p_raw[i])

(***************************************************************************)
(* C10 (as stated): for a transcript of valid records, the parser emits    *)
(* exactly the records whose role is user or assistant, plus the           *)
(* compaction and branch_summary records as '[memory-summary]: ...' lines, *)
(* in their original order, each as '[role]: text' with the text blocks of *)
(* a record joined by single spaces; other roles contribute nothing.       *)
(***************************************************************************)
C10_EmitsEveryUserAssistantRecord ==
    ParsedValidTranscript =>
        LET expected ==
                Flatten([i \in DOMAIN p_raw |->
                    IF IsSummaryRecord(p_raw[i])
                    THEN <<SummaryLine(RecordSummary(p_raw[i]))>>
                    ELSE IF HasRole(p_raw[i], {"user", "assistant"})
                    THEN <<RoleLine(p_raw[i].message.role, RecordText(p_raw[i]))>>
                    ELSE <<>>])
        IN  /\ p_result.kind = "return"
            /\ p_result.count = Len(expected)
            /\ p_result.text = Join(expected, <<"\n">>)

(***************************************************************************)
(* C10 (amended): for a transcript of valid records, the parser emits      *)
(* exactly the records whose role is user or assistant and that yield text *)
(* (an inline string, or at least one text block that is not blank), plus  *)
(* the compaction and branch_summary records that have a summary text, as  *)
(* '[memory-summary]: ...' lines, in their original order, each as         *)
(* '[role]: text' with the stripped text blocks of a record joined by      *)
(* single spaces; other roles and records without text contribute nothing. *)
(***************************************************************************)
C10_EmitsRecordsThatYieldText ==
    ParsedValidTranscript =>
        LET expected ==
                Flatten([i \in DOMAIN p_raw |->
                    IF IsSummaryRecord(p_raw[i])
                    THEN IF RecordSummary(p_raw[i]) # <<>>
                         THEN <<SummaryLine(RecordSummary(p_raw[i]))>> ELSE <<>>
                    ELSE IF HasRole(p_raw[i], {"user", "assistant"})
                            /\ YieldsText(p_raw[i])
                    THEN <<RoleLine(p_raw[i].message.role, RecordText(p_raw[i]))>>
                    ELSE <<>>])
        IN  /\ p_result.kind = "return"
            /\ p_result.count = Len(expected)
            /\ p_result.text = Join(expected, <<"\n">>)

\* an assistant record of several blocks between a record of another role and a
\* user record without text: one line is emitted
C10_Witness ==
    /\ ParsedValidTranscript
    /\ Len(p_raw) = 3
    /\ HasRole(p_raw[1], {"toolResult"})
    /\ HasRole(p_raw[2], {"assistant"})
    /\ p_raw[2].message.content.kind = "list"
    /\ Len(BlockTexts(p_raw[2].message.content.blocks)) = 2
    /\ HasRole(p_raw[3], {"user"})
    /\ ~ YieldsText(p_raw[3])
    /\ p_result.kind = "return"
    /\ p_result.count = 1
    /\ p_result.text = <<"[assistant]: ", "b", " ", "c", " ", "d">>

\* the lines a record of the expected shape contributes (none for the others)
LinesOfValidRecord(line) ==
    IF ~ ValidRecord(line) THEN <<>>
    ELSE IF IsSummaryRecord(line)
    THEN IF RecordSummary(line) # <<>> THEN <<SummaryLine(RecordSummary(line))>>
         ELSE <<>>
    ELSE IF HasRole(line, {"user", "assistant"}) /\ YieldsText(line)
    THEN <<RoleLine(line.message.role, RecordText(line))>>
    ELSE <<>>

(***************************************************************************)
(* C11: for every raw input parse_jsonl_session_content completes without  *)
(* raising; a line that is not a record of the expected shape is skipped   *)
(* and every other line is still parsed and emitted.                       *)
(***************************************************************************)
C11_MalformedLinesSkipped ==
    (p_result.kind # "None") =>
        LET expected == Flatten([i \in DOMAIN p_raw |-> LinesOfValidRecord(p_raw[i])])
        IN  /\ p_result.kind = "return"
            /\ p_result.count = Len(expected)
            /\ p_result.text = Join(expected, <<"\n">>)

\* the text after the prefix of line i of the emitted lines is not empty
HasNonEmptyText(line) ==
    IF IsSummaryRecord(line) THEN RecordSummary(line) # <<>>
    ELSE RecordText(line) # <<>>

(***************************************************************************)
(* C12: a line is emitted for a record only if the record yields non-empty *)
(* text, for inline string content, for a list of typed blocks and for     *)
(* summary records.                                                        *)
(***************************************************************************)
C12_EmitsOnlyNonEmptyText ==
    (ParsedValidTranscript /\ p_result.kind = "return") =>
        LET emitting == {i \in DOMAIN p_raw :
                            /\ IsSummaryRecord(p_raw[i])
                                  \/ HasRole(p_raw[i], {"user", "assistant"})
                            /\ HasNonEmptyText(p_raw[i])}
        IN  p_result.count <= Cardinality(emitting)

(***************************************************************************)
(* Vocabulary of the claims about _assemble_session_parts.                 *)
(***************************************************************************)

Assembled == a_result.kind # "None"

\* the emitted parts that come from parts before part i
EmittedBefore(i) == SelectSeq(a_result.parts, LAMBDA e : e.id < i)

\* the budget left for part i after the parts already emitted
BudgetLeft(i) == a_max_chars - SumLen(EmittedBefore(i))

EmittedOf(i) == SelectSeq(a_result.parts, LAMBDA e : e.id = i)

\* a part that does not fit is cut to the budget left when that exceeds 1000
\* characters, and dropped otherwise
CutToRemainingOrDropped ==
    \A i \in DOMAIN a_parts :
        a_parts[i].len > BudgetLeft(i) =>
            IF BudgetLeft(i) > 1000
            THEN EmittedOf(i) = <<[id |-> i, len |-> BudgetLeft(i) + TruncationMarkerLen,
                                   kept |-> BudgetLeft(i), truncated |-> TRUE]>>
            ELSE EmittedOf(i) = <<>>

LastPartEmittedTruncated ==
    /\ a_result.parts # <<>>
    /\ a_result.parts[Len(a_result.parts)].id = Len(a_parts)
    /\ a_result.parts[Len(a_result.parts)].truncated

SumsToBudgetPlus1500 == a_parts # <<>> /\ SumLen(a_parts) = a_max_chars + 1500

(***************************************************************************)
(* C13 (as stated): a part that does not fit in the budget left after the  *)
(* parts already emitted is emitted cut to exactly that budget, with the   *)
(* truncation marker, when the budget left exceeds 1000 characters, and is *)
(* dropped otherwise; with budget B and parts whose lengths sum to B+1500  *)
(* the last part is emitted truncated with the marker.                     *)
(***************************************************************************)
C13_OverBy1500TruncatesLast ==
    Assembled =>
        /\ CutToRemainingOrDropped
        /\ SumsToBudgetPlus1500 => LastPartEmittedTruncated

(***************************************************************************)
(* C13 (amended): the same rule; with budget B and parts whose lengths sum *)
(* to B+1500 the last part is emitted truncated with the marker exactly    *)
(* when it is longer than 2500 characters, that is when the parts before   *)
(* it leave more than 1000 characters of the budget.                       *)
(***************************************************************************)
C13_CutToRemainingWhenOver1000 ==
    Assembled =>
        /\ CutToRemainingOrDropped
        /\ SumsToBudgetPlus1500 =>
             (LastPartEmittedTruncated <=> a_parts[Len(a_parts)].len > 2500)

\* parts of 1001 and 3000 characters with a budget of 2501: the second part is
\* emitted cut to the remaining 1500 characters
C13_Witness ==
    /\ Assembled
    /\ SumsToBudgetPlus1500
    /\ Len(a_parts) = 2
    /\ a_result.kind = "joined"
    /\ Len(a_result.parts) = 2
    /\ ~ a_result.parts[1].truncated
    /\ a_result.parts[2].truncated
    /\ a_result.parts[2].kept = 1500

(***************************************************************************)
(* Vocabulary of the claims about _load_sessions_index_map.                *)
(***************************************************************************)

IndexCalled(shape) == i_sidecar # None /\ i_results[shape] # None

\* the shapes the index may have on disk: a list under "sessions" or "items", a
\* bare list, and a map of arbitrary keys
ListShapes == {"sessions", "items", "bare"}

SupportedShapes == ListShapes \cup {"map"}

(***************************************************************************)
(* C18: for the same sequence of index entries _load_sessions_index_map    *)
(* returns the same identifier-to-entry mapping whether the entries are    *)
(* stored as a list (under 'sessions' or 'items', or bare) or as the       *)
(* values of a map of arbitrary keys, also when two entries carry the same *)
(* id and when an entry carries both an id and a sessionId.                *)
(***************************************************************************)
C18_SameMappingForEveryShape ==
    (i_sidecar # None /\ i_sidecar.state = "entries") =>
        \A s1, s2 \in SupportedShapes :
            (IndexCalled(s1) /\ IndexCalled(s2)) => i_results[s1] = i_results[s2]

(***************************************************************************)
(* C19: _load_sessions_index_map never raises: when the sidecar file is    *)
(* missing, unreadable, not valid JSON or valid JSON of an unexpected      *)
(* shape it returns an empty map (or only the well-formed entries), and    *)
(* every value of the returned map is an entry object.                     *)
(***************************************************************************)
C19_IndexMapNeverRaises ==
    \A shape \in Shapes :
        IndexCalled(shape) =>
            /\ i_results[shape].kind = "dict"
            /\ \A k \in DOMAIN i_results[shape].map :
                 /\ i_results[shape].map[k].kind = "entry"
                 /\ \E j \in DOMAIN i_sidecar.entries :
                      i_sidecar.entries[j] = i_results[shape].map[k]
            /\ i_sidecar.state \in SidecarFaults => i_results[shape].map = EmptyMap

(***************************************************************************)
(* Vocabulary of the claims about _resolve_model_pricing.                  *)
(***************************************************************************)

PricingCalled == k_result # None

PricingKeys == {MODEL_PRICING_USD_PER_1M[i].key : i \in DOMAIN MODEL_PRICING_USD_PER_1M}

EntryOfKey(key) ==
    MODEL_PRICING_USD_PER_1M[
        CHOOSE i \in DOMAIN MODEL_PRICING_USD_PER_1M : MODEL_PRICING_USD_PER_1M[i].key = key]

PrefixKeys(name) == {key \in PricingKeys : StartsWith(name, key)}

LongestKey(keys) == CHOOSE key \in keys : \A other \in keys : Len(other) <= Len(key)

(***************************************************************************)
(* C20: for every model name _resolve_model_pricing returns the price      *)
(* entry whose key equals the name when there is one, otherwise the entry  *)
(* of the longest table key that is a prefix of the name, otherwise no     *)
(* entry.                                                                  *)
(***************************************************************************)
C20_ExactThenLongestPrefix ==
    PricingCalled =>
        k_result.value =
            IF k_model_name \in PricingKeys THEN EntryOfKey(k_model_name)
            ELSE IF PrefixKeys(k_model_name) # {}
            THEN EntryOfKey(LongestKey(PrefixKeys(k_model_name)))
            ELSE None

\* a name that starts with kimi-k2-turbo-preview, and so with kimi-k2-turbo as
\* well, resolves to the entry of the longer key
C20_Witness ==
    /\ PricingCalled
    /\ k_model_name = <<"kimi-k2", "-turbo", "-preview", "x">>
    /\ Cardinality(PrefixKeys(k_model_name)) = 2
    /\ k_result.value.key = <<"kimi-k2", "-turbo", "-preview">>

(***************************************************************************)
(* C28: the parts _assemble_session_parts emits are a prefix of the input  *)
(* parts in input order, only the last emitted part can be truncated, no   *)
(* part after the first one that does not fit is emitted even when it      *)
(* would fit in the budget left, and the result is the sentinel            *)
(* "[No sessions loaded]" exactly when no part is emitted.                 *)
(***************************************************************************)
C28_EmittedPartsArePrefix ==
    Assembled =>
        LET emitted == a_result.parts
            n == Len(emitted)
        IN  /\ n <= Len(a_parts)
            /\ \A i \in 1..n : emitted[i].id = a_parts[i].id
            /\ \A i \in 1..n :
                 IF emitted[i].truncated
                 THEN i = n /\ emitted[i].kept < a_parts[i].len
                 ELSE emitted[i].kept = a_parts[i].len
            /\ (a_result.kind = "sentinel") <=> (n = 0)
            /\ (a_result.kind = "sentinel") => a_result.text = NoSessionsLoaded

\* a part is emitted whole, the next one does not fit and is dropped, and the
\* one after it, which would fit in the budget left, is not emitted
C28_Witness ==
    /\ Assembled
    /\ a_result.kind = "joined"
    /\ Len(a_result.parts) = 1
    /\ ~ a_result.parts[1].truncated
    /\ Len(a_parts) = 3
    /\ a_parts[2].len + a_parts[1].len > a_max_chars
    /\ a_parts[3].len > 0
    /\ a_parts[3].len + a_parts[1].len <= a_max_chars

\* the class of an error message: rate-limit markers are looked for first
ErrorClass(error) ==
    IF CarriesAny(error, ListedRateLimitMarkers) THEN "rate_limited"
    ELSE IF CarriesAny(error, AllTransientMarkers) THEN "transient"
    ELSE "fatal"

\* what run_rlm does with a failure of the given class
OutcomeOfClass(class, within_bound) ==
    CASE class = "rate_limited" -> "return"
      [] class = "transient" -> IF within_bound THEN "continue" ELSE "raise"
      [] OTHER -> "raise"

(***************************************************************************)
(* C30: what run_rlm does with a failed call is a function of the class of *)
(* the lower-cased error text, one of rate_limited, transient and fatal,   *)
(* with the rate-limit markers taking precedence: a message that carries   *)
(* both a rate-limit and a transient marker ends the call with status      *)
(* rate_limited on any attempt, also while retries remain, and is neither  *)
(* retried nor raised.                                                     *)
(***************************************************************************)
C30_RateLimitTakesPrecedence ==
    \A i \in DOMAIN calls :
        LET c == calls[i]
            run == RunArgs(c.phase)
        IN  Failed(c) =>
                /\ c.ends = OutcomeOfClass(ErrorClass(c.outcome.error),
                                           c.attempt <= run.max_retries)
                /\ (/\ CarriesAny(c.outcome.error, ListedRateLimitMarkers)
                    /\ CarriesAny(c.outcome.error, AllTransientMarkers)) =>
                        /\ c.ends = "return"
                        /\ c.returned # <<>>
                        /\ c.returned[1].status = "rate_limited"
                        /\ c.slept = <<>>
                        /\ c.raised = <<>>
                        /\ LastOfItsRun(i)

\* a message with both markers on the second attempt, with a retry still allowed
C30_Witness ==
    /\ r_pc = "returned"
    /\ r_call.max_retries = 2
    /\ r_attempt = 2
    /\ Last(calls).outcome.error = <<"429", "Timeout">>
    /\ r_result.status = "rate_limited"
    /\ calls[Len(calls) - 1].ends = "continue"

\* a sub model is given and is not the primary model
DistinctSubModel(run) == run.sub_model # "" /\ run.sub_model # run.root_model

\* the backend object is configured with the primary model of the call, and
\* with a secondary backend, for the sub model, exactly when one is called for
ConfiguredFor(rlm, run) ==
    /\ rlm.kwargs.model_name = run.root_model
    /\ (rlm.kwargs.other_backend_kwargs # <<>>) <=> DistinctSubModel(run)
    /\ DistinctSubModel(run) => rlm.kwargs.other_backend_kwargs = <<run.sub_model>>

(***************************************************************************)
(* C26: on every attempt of run_rlm the backend is configured with a       *)
(* secondary backend, for the sub model, if and only if a sub model is     *)
(* given and differs from the primary model; and the ok result reports the *)
(* primary and sub model run_rlm was called with.                          *)
(***************************************************************************)
C26_SecondaryOnlyWhenDistinct ==
    /\ \A i \in DOMAIN calls :
         LET c == calls[i]
             run == RunArgs(c.phase)
         IN  /\ ConfiguredFor(c.rlm, run)
             /\ c.outcome.ok =>
                  /\ c.returned[1].model_used = run.root_model
                  /\ c.returned[1].sub_model_used = run.sub_model
    /\ r_pc = "completion" => ConfiguredFor(r_rlm, r_call)

\* a retried call with no sub model, and so no secondary backend, that succeeds
\* on its second attempt
C26_Witness ==
    /\ r_pc = "returned"
    /\ r_call.sub_model = ""
    /\ Len(calls) = 2
    /\ calls[1].rlm.kwargs.other_backend_kwargs = <<>>
    /\ calls[2].rlm.kwargs.other_backend_kwargs = <<>>
    /\ r_result.status = "ok"
    /\ r_result.sub_model_used = ""

\* the run_rlm invocation of phase ph made at most max_retries + 1 backend calls
CallsWithinRetryBound(ph) ==
    HasRun(ph) => Len(PhaseCalls(ph)) <= RunArgs(ph).max_retries + 1

\* the i-th backend call was made on the i-th backend object built
FreshBackendPerCall == \A i \in DOMAIN calls : calls[i].rlm.serial = i

\* a backend object that has not finished its call exists only while run_rlm
\* waits for rlm.completion, and there is one of them
OneCallInFlight ==
    /\ created \in {Len(calls), Len(calls) + 1}
    /\ (created = Len(calls) + 1) <=> (r_pc = "completion")
    /\ r_pc = "completion" => r_rlm.serial = created

RunRlmInProgress == r_pc \in {"loop", "completion"}

MainFinished == m_pc \in {"done", "exited"}

(***************************************************************************)
(* C27: whatever the backend calls return or raise, and for every          *)
(* max_retries >= 0, each run_rlm invocation ends (returns or raises)      *)
(* after at most max_retries + 1 backend calls, every call is made on a    *)
(* backend object built for it, at most one call is in flight, and a whole *)
(* run of main_async makes at most 2 * (max_retries + 1) backend calls and *)
(* finishes.                                                               *)
(***************************************************************************)
C27_TerminatesWithinCallBound ==
    /\ [](/\ CallsWithinRetryBound("primary")
          /\ CallsWithinRetryBound("fallback")
          /\ FreshBackendPerCall
          /\ OneCallInFlight
          /\ Len(calls) <= 2 * (Max(0, m_args.max_retries) + 1))
    /\ RunRlmInProgress ~> ~ RunRlmInProgress
    /\ <> MainFinished

\* both invocations used every call they are allowed: 2 * (2 + 1) backend calls
C27_Witness ==
    /\ m_pc = "done"
    /\ m_args.max_retries = 2
    /\ Len(calls) = 6
    /\ created = 6
    /\ Len(PhaseCalls("primary")) = 3
    /\ Len(PhaseCalls("fallback")) = 3

ParallelFinished == CalledParallel /\ s_result # None

\* what load_sessions gives for the directory and arguments of the parallel call
SequentialOutcome == load_sessions(s_dir, s_call.max_sessions, s_call.max_chars)

(***************************************************************************)
(* C29: on the same directory and arguments, and for every order in which  *)
(* the per-file tasks complete, load_sessions_parallel returns exactly     *)
(* when load_sessions returns, and returns the same text: the sessions are *)
(* assembled in their most-recent-first discovery order, not in the order  *)
(* of completion.                                                          *)
(***************************************************************************)
C29_ParallelEqualsSequential ==
    ParallelFinished =>
        /\ (s_result.kind = "raise") <=> (SequentialOutcome.kind = "raise")
        /\ (s_result.kind # "raise") => s_result = SequentialOutcome

\* two sessions are assembled, and the task of the more recent one completed last
C29_Witness ==
    /\ ParallelFinished
    /\ s_result.kind = "joined"
    /\ Len(s_result.parts) >= 2
    /\ \E i, j \in DOMAIN s_tasks :
         /\ i < j
         /\ s_tasks[i].outcome.kind = "str"
         /\ s_tasks[j].outcome.kind = "str"
         /\ s_tasks[i].rank > s_tasks[j].rank
         /\ s_tasks[i].entry.ts > s_tasks[j].entry.ts
    /\ s_result = SequentialOutcome

(***************************************************************************)
(* Vocabulary of the claims about estimate_usage_cost.                     *)
(***************************************************************************)

CostCalled == c_result # None

\* the models of the usage summary whose statistics are a dict, in order
CountedModels ==
    IF c_usage.kind = "None" \/ c_usage.empty THEN <<>>
    ELSE IF c_usage.model_usage_summaries.kind # "dict" THEN <<>>
    ELSE SelectSeq(c_usage.model_usage_summaries.items,
                   LAMBDA item : item.stats.kind = "dict")

\* the token count of a model: the first of its fields that is given and not zero
TokensOf(fields) ==
    LET given == {k \in DOMAIN fields : fields[k] > 0}
    IN  IF given = {} THEN 0 ELSE fields[CHOOSE k \in given : \A j \in given : k <= j]

\* the prices of the model: those of the longest table key its name starts with
PricesOf(model_name) ==
    IF PrefixKeys(model_name) = {} THEN None
    ELSE EntryOfKey(LongestKey(PrefixKeys(model_name))).prices

\* inputTokens * promptPrice / 1e6 + outputTokens * completionPrice / 1e6, in
\* 1e-8 USD; zero for a model without prices
ExactCost(item) ==
    IF PricesOf(item.model_name) = None THEN 0
    ELSE TokensOf(item.stats.input) * PricesOf(item.model_name).prompt
            + TokensOf(item.stats.output) * PricesOf(item.model_name).completion

RECURSIVE SumExactCost(_)
SumExactCost(items) ==
    IF items = <<>> THEN 0 ELSE ExactCost(Head(items)) + SumExactCost(Tail(items))

\* amount, in 1e-6 USD, is exact, in 1e-8 USD, at 6-decimal precision
AtSixDecimals(amount, exact) ==
    /\ 2 * (100 * amount - exact) <= 100
    /\ 2 * (exact - 100 * amount) <= 100

(***************************************************************************)
(* C21: for every usage summary with at least one model, the total         *)
(* estimate_usage_cost returns is the sum over the priced models of        *)
(* inputTokens * promptPrice / 1e6 + outputTokens * completionPrice / 1e6  *)
(* at 6-decimal precision; a model without a price entry is reported with  *)
(* pricing source unknown_model and a cost of zero, and adds nothing to    *)
(* the total.  2000 input and 1000 output tokens at 0.60 / 3.00 per        *)
(* million give 0.0042.                                                    *)
(***************************************************************************)
C21_TotalIsSumOverPricedModels ==
    CostCalled =>
        IF CountedModels = <<>> THEN c_result = EmptyDict
        ELSE /\ c_result.kind = "dict"
             /\ ~ c_result.empty
             /\ AtSixDecimals(c_result.total_estimated_usd, SumExactCost(CountedModels))
             /\ Len(c_result.by_model) = Len(CountedModels)
             /\ \A i \in DOMAIN CountedModels :
                  LET reported == c_result.by_model[i]
                  IN  /\ reported.model_name = CountedModels[i].model_name
                      /\ (reported.entry.pricing_source = "unknown_model")
                            <=> (PricesOf(CountedModels[i].model_name) = None)
                      /\ PricesOf(CountedModels[i].model_name) = None
                            => reported.entry.estimated_usd = 0
                      /\ AtSixDecimals(reported.entry.estimated_usd,
                                       ExactCost(CountedModels[i]))
             /\ (/\ Len(CountedModels) = 1
                 /\ SumExactCost(CountedModels) = 420000)
                    => c_result.total_estimated_usd = 4200

\* 2000 input and 1000 output tokens of kimi-k2.5, next to a model without a
\* price entry: the total is 0.0042
C21_Witness ==
    /\ CostCalled
    /\ Len(CountedModels) = 2
    /\ \E i \in 1..2 :
         /\ CountedModels[i].model_name = <<"kimi-k2", ".5">>
         /\ TokensOf(CountedModels[i].stats.input) = 2000
         /\ TokensOf(CountedModels[i].stats.output) = 1000
         /\ c_result.by_model[i].entry.estimated_usd = 4200
    /\ \E i \in 1..2 :
         /\ CountedModels[i].model_name = <<"x">>
         /\ TokensOf(CountedModels[i].stats.input) > 0
         /\ c_result.by_model[i].entry.pricing_source = "unknown_model"
    /\ c_result.total_estimated_usd = 4200

(***************************************************************************)
(* Vocabulary of the claims about the context payload.                     *)
(***************************************************************************)

Built == b_result # None

\* workspace text + separator + sessions text
WorkspaceThenSessions ==
    b_args.workspace_content \o <<Sep, Rule, Sep>> \o b_result.sessions_content

\* the parts the assembler emits for the sessions of the build
AssembledSessions ==
    _assemble_session_parts(
        [i \in DOMAIN b_args.session_parts |->
            [id |-> i, len |-> SumLen(b_args.session_parts[i])]],
        b_args.max_context_chars).parts

\* one chunk for the workspace text when it is not blank
ExpectedWorkspaceChunks ==
    IF StripText(b_args.workspace_content) # <<>>
    THEN << <<WorkspaceMark>> \o b_args.workspace_content >>
    ELSE <<>>

\* one chunk for each assembled session, in assembly order
ExpectedSessionChunks ==
    [i \in DOMAIN AssembledSessions |->
        StripText(EmittedText(b_args.session_parts, AssembledSessions[i]))]

IsSentinel(text) == text \in {NoSessionsAvailableText, NoSessionsLoadedText}

(***************************************************************************)
(* C22: in string mode the payload handed to the executor is the workspace *)
(* text, the separator and the joined session parts, and its length is at  *)
(* most max_context_chars.                                                 *)
(***************************************************************************)
C22_StringPayloadWithinBudget ==
    (Built /\ b_result.resolved_context_format = "string") =>
        /\ b_result.context_payload.kind = "str"
        /\ b_result.context_payload.text = WorkspaceThenSessions
        /\ SumLen(b_result.context_payload.text) <= b_args.max_context_chars

(***************************************************************************)
(* C23: in chunks mode the payload is a non-empty list and the resolved    *)
(* format is "chunks"; the workspace text, when not blank, is the first    *)
(* chunk and the only one of its kind, every assembled session is one      *)
(* chunk, in assembly order, and no chunk is one of the sentinels.  When   *)
(* there is neither, the list holds the full context as its only chunk.    *)
(***************************************************************************)
C23_OneChunkPerSession ==
    (Built /\ b_result.resolved_context_format = "chunks") =>
        LET expected == ExpectedWorkspaceChunks \o ExpectedSessionChunks
            items == b_result.context_payload.items
        IN  /\ b_result.context_payload.kind = "list"
            /\ items # <<>>
            /\ items = IF expected # <<>> THEN expected ELSE <<WorkspaceThenSessions>>
            /\ \A n \in DOMAIN items : ~ IsSentinel(items[n])

\* the size of the context before it is split: the length of the full string
UnboundedChars == SumLen(WorkspaceThenSessions)

ShapeMatchesFormat ==
    /\ b_result.resolved_context_format \in {"string", "chunks"}
    /\ (b_result.resolved_context_format = "chunks")
          <=> (b_result.context_payload.kind = "list")
    /\ (b_result.resolved_context_format = "string")
          <=> (b_result.context_payload.kind = "str")
    /\ b_args.context_format # "auto"
          => b_result.resolved_context_format = b_args.context_format

(***************************************************************************)
(* C24 (as stated): the auto format resolves to "chunks" when the pi       *)
(* profile is not "off" or the unbounded context size exceeds 120,000      *)
(* characters, and to "string" otherwise; the resolved format is "string"  *)
(* or "chunks" and matches the shape of the payload.                       *)
(***************************************************************************)
C24_AutoChunksAboveThreshold ==
    Built =>
        /\ ShapeMatchesFormat
        /\ b_args.context_format = "auto" =>
             ((b_result.resolved_context_format = "chunks")
                <=> (b_args.pi_profile # "off" \/ UnboundedChars > 120000))

(***************************************************************************)
(* C24 (amended): the same, with "chunks" from 120,000 characters on: the  *)
(* auto format resolves to "chunks" when the pi profile is not "off" or    *)
(* the unbounded context size is at least 120,000 characters.              *)
(***************************************************************************)
C24_AutoChunksFromThreshold ==
    Built =>
        /\ ShapeMatchesFormat
        /\ b_args.context_format = "auto" =>
             ((b_result.resolved_context_format = "chunks")
                <=> (b_args.pi_profile # "off" \/ UnboundedChars >= 120000))

\* a full context of exactly 120,000 characters with the pi profile off
C24_Witness ==
    /\ Built
    /\ b_args.context_format = "auto"
    /\ b_args.pi_profile = "off"
    /\ UnboundedChars = 120000
    /\ b_result.resolved_context_format = "chunks"
    /\ b_result.context_payload.kind = "list"

(***************************************************************************)
(* Vocabulary of the claims about load_workspace_sync.                     *)
(***************************************************************************)

WorkspaceLoaded == w_result # None

NamedParts == SelectSeq(w_result.parts, LAMBDA part : part.kind = "named")

DailyParts == SelectSeq(w_result.parts, LAMBDA part : part.kind = "daily")

IncludedNotes == {DailyParts[i].name : i \in DOMAIN DailyParts}

\* the notes that can be read and are neither blank nor shorter than 20 characters
QualifyingNotes ==
    {d \in DOMAIN w_workspace.notes :
        /\ w_workspace.notes[d].state = "file"
        /\ ~ w_workspace.notes[d].blank
        /\ w_workspace.notes[d].len >= 20}

RECURSIVE SumNoteLens(_)
SumNoteLens(stems) ==
    IF stems = {} THEN 0
    ELSE LET d == CHOOSE e \in stems : TRUE
         IN  w_workspace.notes[d].len + SumNoteLens(stems \ {d})

NewerQualifying(d) == {e \in QualifyingNotes : e > d}

(***************************************************************************)
(* C25: every named file load_workspace_sync includes has a content of at  *)
(* most 50,000 characters; the dated notes included are in descending name *)
(* order and their contents add up to at most daily_chars_limit; a note    *)
(* that is empty, blank, short or unreadable is passed over and the scan   *)
(* goes on: the notes included are the most recent qualifying notes, up to *)
(* the first one that does not fit in the budget.                          *)
(***************************************************************************)
C25_WorkspaceLimitsAndOrder ==
    WorkspaceLoaded =>
        /\ \A i \in DOMAIN NamedParts : NamedParts[i].content_len <= 50000
        /\ \A i, j \in DOMAIN DailyParts :
             i < j => DailyParts[i].name > DailyParts[j].name
        /\ \A i \in DOMAIN DailyParts :
             /\ DailyParts[i].name \in QualifyingNotes
             /\ DailyParts[i].content_len = w_workspace.notes[DailyParts[i].name].len
        /\ SumNoteLens(IncludedNotes) <= w_call.daily_chars_limit
        /\ \A d \in QualifyingNotes :
             IF d \in IncludedNotes
             THEN NewerQualifying(d) \subseteq IncludedNotes
             ELSE \/ ~ (NewerQualifying(d) \subseteq IncludedNotes)
                  \/ SumNoteLens(NewerQualifying(d)) + w_workspace.notes[d].len
                        > w_call.daily_chars_limit

\* MEMORY.md of 49,999 characters is included; the most recent note is short and
\* is passed over, the next one is included, and the oldest does not fit
C25_Witness ==
    /\ WorkspaceLoaded
    /\ w_call.daily_chars_limit = 200000
    /\ w_workspace.notes[3] = Content(19, FALSE)
    /\ w_workspace.notes[2] = Content(60000, FALSE)
    /\ w_workspace.notes[1] = Content(150000, FALSE)
    /\ IncludedNotes = {2}
    /\ Len(NamedParts) = 1
    /\ NamedParts[1].name = "MEMORY.md"
    /\ NamedParts[1].content_len = 49999

(***************************************************************************)
(* C1: the total character count of all parts _assemble_session_parts      *)
(* emits, a truncated last part counted with its truncation marker, never  *)
(* exceeds max_chars.                                                      *)
(***************************************************************************)
C1_TotalWithinBudget ==
    (a_result.kind # "None") => SumLen(a_result.parts) <= a_max_chars

====
